---- MODULE Spec2Model ----
(***************************************************************************)
(* Botman: a Bot (src/src/bot.py) run by several threads, the               *)
(* EventManager (src/src/events.py) its events are published to, and the    *)
(* Botman (src/src/botman.py) that schedules it on a thread pool.           *)
(*                                                                         *)
(* Time is a discrete clock `now` (datetime.datetime.now()); None is the   *)
(* value NoneT.  A cron expression is modelled by its period p: its        *)
(* triggers are the multiples of p.                                        *)
(***************************************************************************)
EXTENDS Integers, Sequences, FiniteSets, TLC

\* ------------------------------------------------------------------ bounds
MaxRetries == 2
MaxTime == 3
MaxRuns == 2
MaxEvents == 2
MaxCalls == 2
MaxBots == 2
MaxOps == 3
MaxPending == 2

\* --------------------------------------------------------------- constants
NoneT == -1
RetryDelayCap == 60

\* the durations a Bot is constructed with: none and some
InitialTimeouts == {0, 1}
RetryDelays == {0, 1}

Threads == {"t1", "t2"}
NoThread == "none"
Workers == {"w1", "w2"}
Topics == {"bot", "botman"}    \* the names callbacks are subscribed to
PublishTopics == {"bot"}       \* the names events are published under
Callbacks == {"f", "g"}
EventTypes == {"info", "error"}
Loops == {"l1", "l2"}          \* pool threads that can run Botman._loop
Callers == {"c1", "c2"}        \* threads that call the Botman's methods

VARIABLES
    \* Bot fields
    state,          \* metrics.state: "idle" | "running" | "timeout"
    runs,           \* metrics.runs
    errors,         \* metrics.errors
    last_run,       \* metrics.last_run (NoneT or an instant)
    timeout_until,  \* timeout_until (NoneT or an instant)
    bot_lock,       \* holder of Bot._lock, NoThread when free
    retries,        \* configuration, fixed at construction
    initial_timeout,
    retry_delay,
    schedule,       \* list of cron periods
    \* the clock
    now,
    \* the threads that call the Bot's methods
    pc,             \* position of each thread
    op,             \* the method the thread is in (or has just returned from)
    arg,            \* its set_last_run argument
    current_try,    \* run(): local current_try
    wake,           \* run(): instant the current time.sleep() ends
    now_l,          \* is_due(): local now; set_last_run(): its argument
    result,         \* value returned (or exception raised) by the call
    rval,           \* instant returned by get_next_run()
    calls,          \* number of times this run() has invoked self.function
    emitted,        \* events this run() has published, in order
    \* EventManager fields
    queue,          \* _queue
    subscriptions,  \* bot_name -> event type -> list of callbacks
    bus_running,    \* _running
    bus_lock,       \* holder of EventManager._lock, NoThread when free
    \* the threads that run EventManager._process_queue
    wpc,            \* position of each worker thread ("dead": no such thread)
    wev,            \* the event it took from the queue
    widx,           \* index of the next callback in the list it iterates
    wcalls,         \* the callbacks it has invoked with that event, in order
    wraised,        \* position in wcalls of the first callback that raised (0: none)
    npublished,     \* number of events published so far
    dispatched,     \* serial numbers of the events whose dispatch has finished
    api,            \* the latest subscribe call, or that unsubscribe was called since
    napi,           \* number of subscribe and unsubscribe calls so far
    \* Botman fields
    bots,           \* self.bots: list of Bot (by name)
    sched_running,  \* self.running
    sched_lock,     \* holder of Botman._lock, NoThread when free
    pool_shutdown,  \* self._executor has been shut down
    pending,        \* number of bot.run work items submitted and not yet started
    wtask,          \* what each pool thread of Threads executes: "idle" | "run"
    \* the pool threads that run Botman._loop
    lpc,            \* position in _loop ("none": no such thread)
    l_now,          \* local now (the snapshot of line 128)
    l_i,            \* index of the bot the scan is at
    next_times,     \* local next_times
    bots_to_run,    \* local bots_to_run
    l_scan,         \* what the scan has found for each bot so far
    sleep_time,     \* local sleep_time, in half seconds (0: not computed)
    l_wake,         \* instant the current time.sleep() ends
    \* the threads that call the Botman's methods
    cpc,            \* position of each caller
    cop,            \* the method it is in (or has just returned from)
    cres,           \* what that call returned or raised
    nops,           \* number of calls of Botman methods so far
    \* what the callers hold
    bot_ref,        \* what Bot(...) gave: "none" (not called) | "bot" | "ValueError"
    snap            \* for each caller, what its latest metrics query returned

botVars == <<state, runs, errors, last_run, timeout_until, bot_lock>>
cfgVars == <<retries, initial_timeout, retry_delay, schedule>>
refVars == <<bot_ref, snap>>
thrVars == <<pc, op, arg, current_try, wake, now_l, result, rval, calls, emitted>>
busVars == <<subscriptions, bus_running, bus_lock, wpc, wev, widx, wcalls, wraised,
             npublished, dispatched, api, napi>>
loopVars == <<lpc, l_now, l_i, next_times, bots_to_run, l_scan, sleep_time, l_wake>>
callVars == <<cpc, cop, cres, nops>>
schedVars == <<bots, sched_running, sched_lock, pool_shutdown, pending, wtask,
               loopVars, callVars>>
vars == <<botVars, cfgVars, refVars, now, thrVars, queue, busVars, schedVars>>

\* ----------------------------------------------------------------- helpers
Min(S) == CHOOSE x \in S : \A y \in S : x <= y

\* BotEvent(bot_name, bot_id, type, description, data): the description's
\* text is kept as a tag, and data as one number (the attempt of a "failed"
\* event, the serial number of an event published by another source).
BotEvent(name, type, description, data) ==
    [bot_name |-> name, event_type |-> type, description |-> description,
     data |-> data]

BotName == "bot"

\* EventManager.publish: queue.put
publish(q, ev) == Append(q, ev)

\* class SoftError defines exactly these methods
SoftErrorMethods == {"__init__", "__str__"}

\* retry_delay if retry_delay < 60 else 60
CapRetryDelay(d) == IF d < RetryDelayCap THEN d ELSE RetryDelayCap

\* a cron expression is kept as the period of its triggers; 0 stands for a
\* text croniter cannot parse
Parses(e) == e > 0

\* croniter(expr, base).get_next(): the first trigger strictly after base
CronNext(p, base) == ((base \div p) + 1) * p

\* the schedules a Bot can be constructed with (each parses)
InitSchedules == {<<3, 2>>}

\* EventManager.__init__ (lines 21-27): nothing subscribed, not started
NoCall == [op |-> "none", bot_name |-> "", callback |-> "", given |-> FALSE,
           event_types |-> <<>>]
NoEvent == BotEvent("", "", "", 0)
BusFields ==
    /\ subscriptions = [n \in {} |-> <<>>]
    /\ bus_running = FALSE
    /\ bus_lock = NoThread
    /\ wpc = [w \in Workers |-> "dead"]
    /\ wev = [w \in Workers |-> NoEvent]
    /\ widx = [w \in Workers |-> 0]
    /\ wcalls = [w \in Workers |-> <<>>]
    /\ wraised = [w \in Workers |-> 0]
    /\ npublished = 0
    /\ dispatched = {}
    /\ api = NoCall
    /\ napi = 0

\* no metrics query has returned yet
NoSnapshot == [kind |-> "none", items |-> <<>>]
\* Bot(...) has returned the Bot; nobody has asked for its metrics
RefFields ==
    /\ bot_ref = "bot"
    /\ snap = [c \in Callers |-> NoSnapshot]

\* no thread is inside a method of the Bot
ThreadsReady ==
    /\ pc = [t \in Threads \cup Loops |-> "ready"]
    /\ op = [t \in Threads \cup Loops |-> "none"]
    /\ arg = [t \in Threads \cup Loops |-> FALSE]
    /\ current_try = [t \in Threads \cup Loops |-> 0]
    /\ wake = [t \in Threads \cup Loops |-> 0]
    /\ now_l = [t \in Threads \cup Loops |-> 0]
    /\ result = [t \in Threads \cup Loops |-> "none"]
    /\ rval = [t \in Threads \cup Loops |-> NoneT]
    /\ calls = [t \in Threads \cup Loops |-> 0]
    /\ emitted = [t \in Threads \cup Loops |-> <<>>]

\* Botman.__init__ (lines 14-28): no bot, not running, a pool with no thread
SchedRest ==
    /\ sched_running = FALSE
    /\ sched_lock = NoThread
    /\ pool_shutdown = FALSE
    /\ wtask = [t \in Threads |-> "idle"]
    /\ lpc = [l \in Loops |-> "none"]
    /\ l_now = [l \in Loops |-> 0]
    /\ l_i = [l \in Loops |-> 0]
    /\ next_times = [l \in Loops |-> <<>>]
    /\ bots_to_run = [l \in Loops |-> <<>>]
    /\ l_scan = [l \in Loops |-> <<>>]
    /\ sleep_time = [l \in Loops |-> 0]
    /\ l_wake = [l \in Loops |-> 0]
    /\ cpc = [c \in Callers |-> "ready"]
    /\ cop = [c \in Callers |-> "none"]
    /\ cres = [c \in Callers |-> "none"]
    /\ nops = 0
SchedFields ==
    /\ bots = <<>>
    /\ pending = 0
    /\ SchedRest

\* ------------------------------------------------------------------- Init
\* Bot.__init__ (lines 37-75)
JobInit ==
    /\ state = "idle"
    /\ runs = 0
    /\ errors = 0
    /\ last_run = NoneT
    /\ timeout_until = NoneT
    /\ bot_lock = NoThread
    /\ retries \in 0..MaxRetries
    /\ initial_timeout \in InitialTimeouts
    /\ \E d \in RetryDelays : retry_delay = CapRetryDelay(d)
    /\ schedule \in InitSchedules
    /\ now = 0
    /\ ThreadsReady
    /\ RefFields
    /\ queue = <<>>
    /\ BusFields
    /\ SchedFields

\* a thread enters method m
Enter(t, m, a) ==
    /\ pc[t] = "ready"
    /\ op' = [op EXCEPT ![t] = m]
    /\ arg' = [arg EXCEPT ![t] = a]

\* a thread returns r from its method
Leave(t, r) ==
    /\ pc' = [pc EXCEPT ![t] = "done"]
    /\ result' = [result EXCEPT ![t] = r]

\* ---------------------------------------------------------------- Bot.run
\* mutants of the guard of line 152
RunRefusesOnlyTimeout(s) == s = "timeout"
RunRefusesOnlyRunning(s) == s = "running"

\* line 152: if self.metrics.state in [RUNNING, TIMEOUT]: return False
RunRefuses(s) == s \in {"running", "timeout"}

\* mutant: one attempt too many
LoopContinuesInclusive(k) == k <= retries

\* line 158: while current_try < self.retries
LoopContinues(k) == k < retries

\* line 178: "warning" if current_try < self.retries else "error"
FailedEventType(k) == IF k < retries THEN "warning" ELSE "error"

\* mutant: the duration is not added
TimeoutUntilNow(n) == n

\* line 188: datetime.now() + timedelta(seconds=self.initial_timeout)
TimeoutUntilValue(n) == n + initial_timeout

\* lines 151-155
Run_Begin(t, slr) ==
    /\ Enter(t, "run", slr)
    /\ bot_lock = NoThread
    /\ (~RunRefuses(state)) => runs < MaxRuns
    /\ calls' = [calls EXCEPT ![t] = 0]
    /\ current_try' = [current_try EXCEPT ![t] = 0]
    /\ IF RunRefuses(state)
       THEN /\ Leave(t, "False")
            /\ UNCHANGED <<state, queue, emitted>>
       ELSE /\ state' = "running"
            /\ LET ev == BotEvent(BotName, "info", "started", 0) IN
                 /\ queue' = publish(queue, ev)
                 /\ emitted' = [emitted EXCEPT ![t] = <<ev>>]
            /\ pc' = [pc EXCEPT ![t] = "run_loop"]
            /\ UNCHANGED result
    /\ UNCHANGED <<runs, errors, last_run, timeout_until, bot_lock, cfgVars, refVars, now,
                   wake, now_l, rval>>
    /\ UNCHANGED <<busVars, schedVars>>

\* line 158: the loop test; falling off the loop returns None
Run_Loop(t) ==
    /\ pc[t] = "run_loop"
    /\ IF LoopContinues(current_try[t])
       THEN /\ pc' = [pc EXCEPT ![t] = "run_try"]
            /\ UNCHANGED result
       ELSE Leave(t, "None")
    /\ UNCHANGED <<botVars, cfgVars, refVars, now, op, arg, current_try, wake, now_l, rval,
                   calls, emitted, queue>>
    /\ UNCHANGED <<busVars, schedVars>>

\* lines 160-162: take the lock, count the run, call self.function
Run_Call(t) ==
    /\ pc[t] = "run_try"
    /\ bot_lock = NoThread
    /\ bot_lock' = t
    /\ runs' = runs + 1
    /\ calls' = [calls EXCEPT ![t] = @ + 1]
    /\ pc' = [pc EXCEPT ![t] = "run_fn"]
    /\ UNCHANGED <<state, errors, last_run, timeout_until, cfgVars, refVars, now, op, arg,
                   current_try, wake, now_l, result, rval, emitted, queue>>
    /\ UNCHANGED <<busVars, schedVars>>

\* lines 162-170: self.function returned
Run_FnReturn(t) ==
    /\ pc[t] = "run_fn"
    /\ last_run' = IF arg[t] THEN now ELSE last_run
    /\ state' = "idle"
    /\ LET ev == BotEvent(BotName, "info", "completed", 0) IN
         /\ queue' = publish(queue, ev)
         /\ emitted' = [emitted EXCEPT ![t] = Append(@, ev)]
    /\ bot_lock' = NoThread
    /\ Leave(t, "result")
    /\ UNCHANGED <<runs, errors, timeout_until, cfgVars, refVars, now, op, arg, current_try,
                   wake, now_l, rval, calls>>
    /\ UNCHANGED <<busVars, schedVars>>

\* mutant: the lock taken on line 160 is kept through the except block
LockKeptAfterRaise(t) == t

\* lines 160-171: the exception leaves the with block, which releases the lock
LockAfterRaise(t) == NoThread

\* lines 162, 171: self.function raised; the with block releases the lock
Run_FnRaise(t) ==
    /\ pc[t] = "run_fn"
    /\ bot_lock' = LockAfterRaise(t)
    /\ pc' = [pc EXCEPT ![t] = "run_except"]
    /\ UNCHANGED <<state, runs, errors, last_run, timeout_until, cfgVars, refVars, now, op,
                   arg, current_try, wake, now_l, result, rval, calls, emitted, queue>>
    /\ UNCHANGED <<busVars, schedVars>>

\* lines 172-183: count the failure, publish it, start the backoff sleep
Run_Except(t) ==
    /\ pc[t] = "run_except"
    /\ LET k == current_try[t] + 1
           ev == BotEvent(BotName, FailedEventType(k), "failed", k) IN
         /\ current_try' = [current_try EXCEPT ![t] = k]
         /\ errors' = errors + 1
         /\ queue' = publish(queue, ev)
         /\ emitted' = [emitted EXCEPT ![t] = Append(@, ev)]
         /\ wake' = [wake EXCEPT ![t] = now + retry_delay * k]
    /\ pc' = [pc EXCEPT ![t] = "run_sleep"]
    /\ UNCHANGED <<state, runs, last_run, timeout_until, bot_lock, cfgVars, refVars, now, op,
                   arg, now_l, result, rval, calls>>
    /\ UNCHANGED <<busVars, schedVars>>

\* lines 183-185: time.sleep returns; if current_try == self.retries
Run_Wake(t) ==
    /\ pc[t] = "run_sleep"
    /\ now >= wake[t]
    /\ pc' = [pc EXCEPT ![t] =
                IF current_try[t] = retries THEN "run_timeout" ELSE "run_loop"]
    /\ wake' = [wake EXCEPT ![t] = 0]
    /\ UNCHANGED <<botVars, cfgVars, refVars, now, op, arg, current_try, now_l, result,
                   rval, calls, emitted, queue>>
    /\ UNCHANGED <<busVars, schedVars>>

\* lines 186-196: enter timeout.  The BotEvent's data is built from
\* SoftError(...).to_dict() before publish is called.
Run_Timeout(t) ==
    /\ pc[t] = "run_timeout"
    /\ bot_lock = NoThread
    /\ state' = "timeout"
    /\ timeout_until' = TimeoutUntilValue(now)
    /\ IF "to_dict" \in SoftErrorMethods
       THEN LET ev == BotEvent(BotName, "error", "entered timeout", 0) IN
              /\ queue' = publish(queue, ev)
              /\ emitted' = [emitted EXCEPT ![t] = Append(@, ev)]
              /\ Leave(t, "SoftError")
       ELSE /\ Leave(t, "AttributeError")
            /\ UNCHANGED <<queue, emitted>>
    /\ UNCHANGED <<runs, errors, last_run, bot_lock, cfgVars, refVars, now, op, arg,
                   current_try, wake, now_l, rval, calls>>
    /\ UNCHANGED <<busVars, schedVars>>

\* ------------------------------------------------------ Bot.is_in_timeout
\* mutant: expiry only strictly after timeout_until
TimeoutExpiredStrict(tu, n) == tu # NoneT /\ n > tu

\* line 202: if self.timeout_until and datetime.now() >= self.timeout_until
TimeoutExpired(tu, n) == tu # NoneT /\ n >= tu

\* mutant: the expiry leaves timeout_until as it is
AfterExpiryKept(tu) == tu

\* line 204: self.timeout_until = None
AfterExpiry(tu) == NoneT

\* lines 198-207
Is_in_timeout(t) ==
    /\ Enter(t, "is_in_timeout", FALSE)
    /\ bot_lock = NoThread
    /\ IF state = "timeout"
       THEN IF TimeoutExpired(timeout_until, now)
            THEN /\ state' = "idle"
                 /\ timeout_until' = AfterExpiry(timeout_until)
                 /\ Leave(t, "False")
            ELSE /\ Leave(t, "True")
                 /\ UNCHANGED <<state, timeout_until>>
       ELSE /\ Leave(t, "False")
            /\ UNCHANGED <<state, timeout_until>>
    /\ UNCHANGED <<runs, errors, last_run, bot_lock, cfgVars, refVars, now, current_try, wake,
                   now_l, rval, calls, emitted, queue>>
    /\ UNCHANGED <<busVars, schedVars>>

\* ------------------------------------------------------- Bot.get_next_run
\* line 236: timedelta(hours=1), in seconds
Hour == 3600

\* line 219: if self.metrics.state == BotState.TIMEOUT and self.timeout_until
InTimeoutBranch == state = "timeout" /\ timeout_until # NoneT

\* lines 223-234 raise: croniter(schedule, base) on a text it cannot parse
\* (ValueError), min(runs) on an empty list (ValueError)
CronFails(sch) == sch = <<>> \/ \E i \in DOMAIN sch : ~Parses(sch[i])

\* mutant: the failure is answered with the present instant
NextRunOnFailureNow(n) == n

\* lines 235-236: except Exception: return now + 1 hour
NextRunOnFailure(n) == n + Hour

\* lines 222-236: the earliest next trigger after last_run, or after
\* init_time (the instant 0) for a bot that has no last_run
CronNextRun ==
    IF CronFails(schedule) THEN NextRunOnFailure(now)
    ELSE LET base == IF last_run = NoneT THEN 0 ELSE last_run IN
         Min({CronNext(schedule[i], base) : i \in 1..Len(schedule)})

\* lines 217-236, when no other thread writes the Bot's fields meanwhile
get_next_run == IF InTimeoutBranch THEN timeout_until ELSE CronNextRun

\* lines 217-236 without the return of line 220.  No lock is taken.
Get_next_run(t) ==
    /\ Enter(t, "get_next_run", FALSE)
    /\ IF InTimeoutBranch
       THEN /\ pc' = [pc EXCEPT ![t] = "next_ret"]
            /\ UNCHANGED <<result, rval>>
       ELSE /\ Leave(t, "instant")
            /\ rval' = [rval EXCEPT ![t] = CronNextRun]
    /\ UNCHANGED <<botVars, cfgVars, refVars, now, current_try, wake, now_l, calls, emitted,
                   queue>>
    /\ UNCHANGED <<busVars, schedVars>>

\* line 220: return self.timeout_until, read a second time
Get_next_run_Return(t) ==
    /\ pc[t] = "next_ret"
    /\ Leave(t, IF timeout_until = NoneT THEN "None" ELSE "instant")
    /\ rval' = [rval EXCEPT ![t] = timeout_until]
    /\ UNCHANGED <<botVars, cfgVars, refVars, now, op, arg, current_try, wake, now_l, calls,
                   emitted, queue>>
    /\ UNCHANGED <<busVars, schedVars>>

\* ------------------------------------------------------------- Bot.is_due
\* lines 240-242
Is_due_Begin(t, slr) ==
    /\ Enter(t, "is_due", slr)
    /\ bot_lock = NoThread
    /\ IF state \in {"running", "timeout"}
       THEN Leave(t, "False")
       ELSE /\ pc' = [pc EXCEPT ![t] = "due_next"]
            /\ UNCHANGED result
    /\ UNCHANGED <<botVars, cfgVars, refVars, now, current_try, wake, now_l, rval, calls,
                   emitted, queue>>
    /\ UNCHANGED <<busVars, schedVars>>

\* lines 247-249, 253: is_due = next_run <= now; a due bot whose last_run
\* is to be set takes the lock next
Compared(t, next_run) ==
    LET is_due == next_run <= now IN
      IF is_due /\ arg[t]
      THEN /\ pc' = [pc EXCEPT ![t] = "due_mark"]
           /\ now_l' = [now_l EXCEPT ![t] = now]
           /\ UNCHANGED result
      ELSE /\ Leave(t, IF is_due THEN "True" ELSE "False")
           /\ UNCHANGED now_l

\* lines 244-249, 253: get_next_run() up to its line 219, and the comparison
\* when it went on to the schedules
Is_due_Next(t) ==
    /\ pc[t] = "due_next"
    /\ IF InTimeoutBranch
       THEN /\ pc' = [pc EXCEPT ![t] = "due_ret"]
            /\ UNCHANGED <<result, now_l>>
       ELSE Compared(t, CronNextRun)
    /\ UNCHANGED <<botVars, cfgVars, refVars, now, op, arg, current_try, wake, rval, calls,
                   emitted, queue>>
    /\ UNCHANGED <<busVars, schedVars>>

\* line 220 of get_next_run(), then lines 247-255: None <= now raises a
\* TypeError, and except Exception returns False
Is_due_Return(t) ==
    /\ pc[t] = "due_ret"
    /\ IF timeout_until = NoneT
       THEN /\ Leave(t, "False")
            /\ UNCHANGED now_l
       ELSE Compared(t, timeout_until)
    /\ UNCHANGED <<botVars, cfgVars, refVars, now, op, arg, current_try, wake, rval, calls,
                   emitted, queue>>
    /\ UNCHANGED <<busVars, schedVars>>

\* lines 250-253
Is_due_Mark(t) ==
    /\ pc[t] = "due_mark"
    /\ bot_lock = NoThread
    /\ last_run' = now_l[t]
    /\ now_l' = [now_l EXCEPT ![t] = 0]
    /\ Leave(t, "True")
    /\ UNCHANGED <<state, runs, errors, timeout_until, bot_lock, cfgVars, refVars, now, op,
                   arg, current_try, wake, rval, calls, emitted, queue>>
    /\ UNCHANGED <<busVars, schedVars>>

\* ------------------------------------------------------- Bot.set_last_run
\* lines 257-259: set_last_run(v) takes the lock
Set_last_run_Begin(t, v) ==
    /\ Enter(t, "set_last_run", FALSE)
    /\ bot_lock = NoThread
    /\ bot_lock' = t
    /\ now_l' = [now_l EXCEPT ![t] = v]
    /\ pc' = [pc EXCEPT ![t] = "slr_set"]
    /\ UNCHANGED <<state, runs, errors, last_run, timeout_until, cfgVars, refVars, now,
                   current_try, wake, result, rval, calls, emitted, queue>>
    /\ UNCHANGED <<busVars, schedVars>>

\* line 260: the assignment; the with block ends
Set_last_run_Set(t) ==
    /\ pc[t] = "slr_set"
    /\ last_run' = now_l[t]
    /\ now_l' = [now_l EXCEPT ![t] = 0]
    /\ bot_lock' = NoThread
    /\ Leave(t, "None")
    /\ UNCHANGED <<state, runs, errors, timeout_until, cfgVars, refVars, now, op, arg,
                   current_try, wake, rval, calls, emitted, queue>>
    /\ UNCHANGED <<busVars, schedVars>>

\* ---------------------------------------------------------- environment
\* the caller takes the returned value and is ready for its next call
Return(t) ==
    /\ pc[t] = "done"
    /\ pc' = [pc EXCEPT ![t] = "ready"]
    /\ op' = [op EXCEPT ![t] = "none"]
    /\ arg' = [arg EXCEPT ![t] = FALSE]
    /\ result' = [result EXCEPT ![t] = "none"]
    /\ rval' = [rval EXCEPT ![t] = NoneT]
    /\ calls' = [calls EXCEPT ![t] = 0]
    /\ current_try' = [current_try EXCEPT ![t] = 0]
    /\ emitted' = [emitted EXCEPT ![t] = <<>>]
    /\ UNCHANGED <<botVars, cfgVars, refVars, now, wake, now_l, queue>>
    /\ UNCHANGED <<busVars, schedVars>>

\* time passes
Tick ==
    /\ now < MaxTime
    /\ now' = now + 1
    /\ UNCHANGED <<botVars, cfgVars, refVars, thrVars, queue>>
    /\ UNCHANGED <<busVars, schedVars>>

\* run() and is_in_timeout() called by any thread at any time
JobNext ==
    \/ \E t \in Threads, slr \in BOOLEAN : Run_Begin(t, slr)
    \/ \E t \in Threads : Run_Loop(t)
    \/ \E t \in Threads : Run_Call(t)
    \/ \E t \in Threads : Run_FnReturn(t)
    \/ \E t \in Threads : Run_FnRaise(t)
    \/ \E t \in Threads : Run_Except(t)
    \/ \E t \in Threads : Run_Wake(t)
    \/ \E t \in Threads : Run_Timeout(t)
    \/ \E t \in Threads : Is_in_timeout(t)
    \/ \E t \in Threads : Return(t)
    \/ Tick

SpecJob == JobInit /\ [][JobNext]_vars

\* every method of the Bot called by any thread at any time
BotNext ==
    \/ \E t \in Threads, slr \in BOOLEAN : Run_Begin(t, slr)
    \/ \E t \in Threads : Run_Loop(t)
    \/ \E t \in Threads : Run_Call(t)
    \/ \E t \in Threads : Run_FnReturn(t)
    \/ \E t \in Threads : Run_FnRaise(t)
    \/ \E t \in Threads : Run_Except(t)
    \/ \E t \in Threads : Run_Wake(t)
    \/ \E t \in Threads : Run_Timeout(t)
    \/ \E t \in Threads : Is_in_timeout(t)
    \/ \E t \in Threads : Get_next_run(t)
    \/ \E t \in Threads : Get_next_run_Return(t)
    \/ \E t \in Threads, slr \in BOOLEAN : Is_due_Begin(t, slr)
    \/ \E t \in Threads : Is_due_Next(t)
    \/ \E t \in Threads : Is_due_Return(t)
    \/ \E t \in Threads : Is_due_Mark(t)
    \/ \E t \in Threads : Set_last_run_Begin(t, now)
    \/ \E t \in Threads : Set_last_run_Set(t)
    \/ \E t \in Threads : Return(t)
    \/ Tick

SpecBot == JobInit /\ [][BotNext]_vars

\* ============================================================ EventManager
\* dictionaries are functions; d[k] = v and del d[k]
EmptyMap == [x \in {} |-> <<>>]
Put(d, k, v) == [x \in DOMAIN d \cup {k} |-> IF x = k THEN v ELSE d[x]]
Del(d, k) == [x \in DOMAIN d \ {k} |-> d[x]]
\* [cb for cb in lst if cb != callback]
Without(lst, callback) == SelectSeq(lst, LAMBDA cb : cb # callback)
NoCallback == "None"
WildcardType == "all"

\* lines 46-52: for event_type in event_types: append callback to its list
RECURSIVE AddTypes(_, _, _, _)
AddTypes(d, callback, event_types, i) ==
    IF i > Len(event_types) THEN d
    ELSE LET ty == event_types[i]
             lst == IF ty \in DOMAIN d THEN d[ty] ELSE <<>>
         IN AddTypes(Put(d, ty, Append(lst, callback)), callback, event_types, i + 1)

\* lines 38-52.  given = FALSE is event_types None; a single type that is
\* not a list is wrapped into a list of one (lines 47-48).
subscribe(subs, bot_name, callback, given, event_types) ==
    LET s1 == IF bot_name \in DOMAIN subs THEN subs ELSE Put(subs, bot_name, EmptyMap)
        d == s1[bot_name]
    IN IF ~given
       THEN LET lst == IF WildcardType \in DOMAIN d THEN d[WildcardType] ELSE <<>>
            IN Put(s1, bot_name, Put(d, WildcardType, Append(lst, callback)))
       ELSE Put(s1, bot_name, AddTypes(d, callback, event_types, 1))

\* lines 137-145: the listed types
RECURSIVE RemoveTypes(_, _, _, _)
RemoveTypes(d, callback, event_types, i) ==
    IF i > Len(event_types) THEN d
    ELSE LET ty == event_types[i]
             d1 == IF ty \in DOMAIN d
                   THEN IF callback = NoCallback
                        THEN Del(d, ty)
                        ELSE Put(d, ty, Without(d[ty], callback))
                   ELSE d
         IN RemoveTypes(d1, callback, event_types, i + 1)

\* lines 147-153: every type; a list left empty is deleted
RemoveEverywhere(d, callback) ==
    LET kept == {ty \in DOMAIN d : Without(d[ty], callback) # <<>>}
    IN [ty \in kept |-> Without(d[ty], callback)]

\* lines 126-156
unsubscribe(subs, bot_name, callback, given, event_types) ==
    IF bot_name \notin DOMAIN subs THEN subs
    ELSE IF callback = NoCallback /\ ~given THEN Del(subs, bot_name)
    ELSE LET d == IF given /\ event_types # <<>>
                  THEN RemoveTypes(subs[bot_name], callback, event_types, 1)
                  ELSE RemoveEverywhere(subs[bot_name], callback)
         IN IF DOMAIN d = {} THEN Del(subs, bot_name) ELSE Put(subs, bot_name, d)

\* lines 65-67 and 73-74: the list the dispatch iterates for a key
CallbacksFor(subs, bot_name, key) ==
    IF bot_name \in DOMAIN subs /\ key \in DOMAIN subs[bot_name]
    THEN subs[bot_name][key]
    ELSE <<>>

\* mutant: the wildcard list is an alternative to the exact list (elif)
AllCallbacksUnlessExact(subs, ev) ==
    IF ev.bot_name \in DOMAIN subs /\ ev.event_type \in DOMAIN subs[ev.bot_name]
    THEN <<>>
    ELSE CallbacksFor(subs, ev.bot_name, WildcardType)

\* lines 66-67: the callbacks of the event's own type
ExactCallbacks(subs, ev) == CallbacksFor(subs, ev.bot_name, ev.event_type)
\* lines 73-74: the callbacks subscribed to "all"
AllCallbacks(subs, ev) == CallbacksFor(subs, ev.bot_name, WildcardType)

\* the arguments subscribe and unsubscribe are called with
TypeLists == {<<"info">>, <<"info", "error">>}
SubArgs == {<<FALSE, <<>>>>} \cup {<<TRUE, tys>> : tys \in TypeLists}
UnsubArgs == {<<FALSE, <<>>>>, <<TRUE, <<"info">>>>}
ApiCall(o, n, cb, a) ==
    [op |-> o, bot_name |-> n, callback |-> cb, given |-> a[1], event_types |-> a[2]]

\* EventManager.subscribe, called by any thread
Subscribe(n, cb, a) ==
    /\ bus_lock = NoThread
    /\ napi < MaxCalls
    /\ subscriptions' = subscribe(subscriptions, n, cb, a[1], a[2])
    /\ api' = ApiCall("subscribe", n, cb, a)
    /\ napi' = napi + 1
    /\ UNCHANGED <<queue, bus_running, bus_lock, wpc, wev, widx, wcalls, wraised, npublished,
                   dispatched>>
    /\ UNCHANGED <<botVars, cfgVars, refVars, now, thrVars, schedVars>>

\* EventManager.unsubscribe, called by any thread
Unsubscribe(n, cb, a) ==
    /\ bus_lock = NoThread
    /\ napi < MaxCalls
    /\ subscriptions' = unsubscribe(subscriptions, n, cb, a[1], a[2])
    /\ api' = ApiCall("unsubscribe", "", "", <<FALSE, <<>>>>)
    /\ napi' = napi + 1
    /\ UNCHANGED <<queue, bus_running, bus_lock, wpc, wev, widx, wcalls, wraised, npublished,
                   dispatched>>
    /\ UNCHANGED <<botVars, cfgVars, refVars, now, thrVars, schedVars>>

\* mutant: publish takes the EventManager's lock, as subscribe does
PublishWaitsForLock(lock) == lock # NoThread

\* line 23, line 56: put() on a queue.Queue() without maxsize never waits
PublishWaits(lock) == FALSE

\* lines 54-56: publish, called by any thread
Publish(n, ty) ==
    /\ npublished < MaxEvents
    /\ ~PublishWaits(bus_lock)
    /\ queue' = publish(queue, BotEvent(n, ty, "event", npublished + 1))
    /\ npublished' = npublished + 1
    /\ UNCHANGED <<subscriptions, bus_running, bus_lock, wpc, wev, widx, wcalls, wraised,
                   dispatched, api, napi>>
    /\ UNCHANGED <<botVars, cfgVars, refVars, now, thrVars, schedVars>>

\* lines 85-97: start; the new thread begins _process_queue
Start ==
    /\ bus_lock = NoThread
    /\ IF bus_running
       THEN UNCHANGED <<bus_running, wpc>>
       ELSE /\ bus_running' = TRUE
            /\ \E w \in Workers :
                 /\ wpc[w] = "dead"
                 /\ wpc' = [wpc EXCEPT ![w] = "loop"]
    /\ UNCHANGED <<queue, subscriptions, bus_lock, wev, widx, wcalls, wraised, npublished,
                   dispatched, api, napi>>
    /\ UNCHANGED <<botVars, cfgVars, refVars, now, thrVars, schedVars>>

\* lines 99-104: stop.  The join changes no field: it only delays the caller.
Stop ==
    /\ bus_running' = FALSE
    /\ UNCHANGED <<queue, subscriptions, bus_lock, wpc, wev, widx, wcalls, wraised, npublished,
                   dispatched, api, napi>>
    /\ UNCHANGED <<botVars, cfgVars, refVars, now, thrVars, schedVars>>

\* line 60: while self._running; the thread ends when the loop does
W_Loop(w) ==
    /\ wpc[w] = "loop"
    /\ wpc' = [wpc EXCEPT ![w] = IF bus_running THEN "get" ELSE "dead"]
    /\ UNCHANGED <<queue, subscriptions, bus_running, bus_lock, wev, widx, wcalls, wraised,
                   npublished, dispatched, api, napi>>
    /\ UNCHANGED <<botVars, cfgVars, refVars, now, thrVars, schedVars>>

\* lines 62, 82-83: queue.get(timeout=1.0); queue.Empty goes back to the loop
W_Get(w) ==
    /\ wpc[w] = "get"
    /\ IF queue # <<>>
       THEN /\ wev' = [wev EXCEPT ![w] = Head(queue)]
            /\ queue' = Tail(queue)
            /\ wpc' = [wpc EXCEPT ![w] = "lock"]
       ELSE /\ wpc' = [wpc EXCEPT ![w] = "loop"]
            /\ UNCHANGED <<wev, queue>>
    /\ UNCHANGED <<subscriptions, bus_running, bus_lock, widx, wcalls, wraised, npublished,
                   dispatched, api, napi>>
    /\ UNCHANGED <<botVars, cfgVars, refVars, now, thrVars, schedVars>>

\* line 64: with self._lock
W_Lock(w) ==
    /\ wpc[w] = "lock"
    /\ bus_lock = NoThread
    /\ bus_lock' = w
    /\ wpc' = [wpc EXCEPT ![w] = "exact"]
    /\ widx' = [widx EXCEPT ![w] = 1]
    /\ UNCHANGED <<queue, subscriptions, bus_running, wev, wcalls, wraised, npublished,
                   dispatched, api, napi>>
    /\ UNCHANGED <<botVars, cfgVars, refVars, now, thrVars, schedVars>>

\* mutant: no try/except around the callback, the exception ends the loop
NextCallbackAborts(raised, i, n) == IF raised THEN n + 1 ELSE i + 1

\* lines 67-71 and 74-78: try: callback(event) except Exception: print(...);
\* the for loop goes on with the next callback of the list of length n
NextCallback(raised, i, n) == i + 1

\* what a callback does when invoked: it returns, or it raises an Exception
CallbackRaises == BOOLEAN

\* callbacks whose body calls unsubscribe(event.bot_name, <itself>) on the
\* EventManager that is dispatching to them
Reentering == {"h"}

\* the worker has invoked callback cb, which raised or returned
Invoked(w, cb, raised) ==
    /\ wcalls' = [wcalls EXCEPT ![w] = Append(@, cb)]
    /\ wraised' = [wraised EXCEPT ![w] =
                      IF raised /\ @ = 0 THEN Len(wcalls[w]) + 1 ELSE @]

\* lines 65-71: the next callback of the event's own type (an exception it
\* raises is caught and printed), then the wildcard list
W_Exact(w) ==
    /\ wpc[w] = "exact"
    /\ LET lst == ExactCallbacks(subscriptions, wev[w]) IN
         IF widx[w] <= Len(lst)
         THEN /\ lst[widx[w]] \notin Reentering
              /\ \E raised \in CallbackRaises :
                   /\ Invoked(w, lst[widx[w]], raised)
                   /\ widx' = [widx EXCEPT ![w] = NextCallback(raised, @, Len(lst))]
              /\ UNCHANGED wpc
         ELSE /\ wpc' = [wpc EXCEPT ![w] = "all"]
              /\ widx' = [widx EXCEPT ![w] = 1]
              /\ UNCHANGED <<wcalls, wraised>>
    /\ UNCHANGED <<queue, subscriptions, bus_running, bus_lock, wev, npublished,
                   dispatched, api, napi>>
    /\ UNCHANGED <<botVars, cfgVars, refVars, now, thrVars, schedVars>>

\* lines 73-81: the next callback subscribed to "all"; after the last one the
\* lock is released, task_done() is called and the thread sleeps 0.5 s
W_All(w) ==
    /\ wpc[w] = "all"
    /\ LET lst == AllCallbacks(subscriptions, wev[w]) IN
         IF widx[w] <= Len(lst)
         THEN /\ lst[widx[w]] \notin Reentering
              /\ \E raised \in CallbackRaises :
                   /\ Invoked(w, lst[widx[w]], raised)
                   /\ widx' = [widx EXCEPT ![w] = NextCallback(raised, @, Len(lst))]
              /\ UNCHANGED <<wpc, wev, bus_lock, dispatched>>
         ELSE /\ bus_lock' = NoThread
              /\ dispatched' = dispatched \cup {wev[w].data}
              /\ wpc' = [wpc EXCEPT ![w] = "loop"]
              /\ wev' = [wev EXCEPT ![w] = NoEvent]
              /\ widx' = [widx EXCEPT ![w] = 0]
              /\ wcalls' = [wcalls EXCEPT ![w] = <<>>]
              /\ wraised' = [wraised EXCEPT ![w] = 0]
    /\ UNCHANGED <<queue, subscriptions, bus_running, npublished, api, napi>>
    /\ UNCHANGED <<botVars, cfgVars, refVars, now, thrVars, schedVars>>

\* a Bot that nobody calls, beside the EventManager
BusInit ==
    /\ state = "idle" /\ runs = 0 /\ errors = 0
    /\ last_run = NoneT /\ timeout_until = NoneT /\ bot_lock = NoThread
    /\ retries = MaxRetries /\ initial_timeout = 1
    /\ retry_delay = CapRetryDelay(1) /\ schedule \in InitSchedules
    /\ now = 0
    /\ ThreadsReady
    /\ RefFields
    /\ queue = <<>>
    /\ BusFields
    /\ SchedFields

WorkerNext(w) == W_Loop(w) \/ W_Get(w) \/ W_Lock(w) \/ W_Exact(w) \/ W_All(w)

BusNext ==
    \/ \E n \in Topics, cb \in Callbacks, a \in SubArgs : Subscribe(n, cb, a)
    \/ \E n \in Topics, cb \in Callbacks \cup {NoCallback}, a \in UnsubArgs :
          Unsubscribe(n, cb, a)
    \/ \E n \in PublishTopics, ty \in EventTypes : Publish(n, ty)
    \/ Start
    \/ Stop
    \/ \E w \in Workers : W_Loop(w)
    \/ \E w \in Workers : W_Get(w)
    \/ \E w \in Workers : W_Lock(w)
    \/ \E w \in Workers : W_Exact(w)
    \/ \E w \in Workers : W_All(w)

\* every worker thread that exists keeps being scheduled
SpecBus ==
    /\ BusInit
    /\ [][BusNext]_vars
    /\ \A w \in Workers : WF_vars(WorkerNext(w))

\* ------------------------------------- callbacks that call the EventManager
\* lines 25, 38, 126: self._lock is a threading.Lock(); "with self._lock"
\* waits for as long as any thread holds it, the calling thread included
AcquireWaits(holder) == holder # NoThread

\* the list the worker is iterating
Dispatching(w) ==
    IF wpc[w] = "exact" THEN ExactCallbacks(subscriptions, wev[w])
    ELSE IF wpc[w] = "all" THEN AllCallbacks(subscriptions, wev[w])
    ELSE <<>>

\* lines 69 and 76 with a callback that calls unsubscribe: the call is made on
\* the worker thread, inside the with block of line 64, and reaches
\* "with self._lock" on line 126
W_Reenter(w) ==
    /\ wpc[w] \in {"exact", "all"}
    /\ widx[w] <= Len(Dispatching(w))
    /\ Dispatching(w)[widx[w]] \in Reentering
    /\ AcquireWaits(bus_lock)
    /\ wpc' = [wpc EXCEPT ![w] = "acquire"]
    /\ UNCHANGED <<queue, subscriptions, bus_running, bus_lock, wev, widx, wcalls, wraised,
                   npublished, dispatched, api, napi>>
    /\ UNCHANGED <<botVars, cfgVars, refVars, now, thrVars, schedVars>>

\* every step a worker thread can take
DispatchNext(w) == WorkerNext(w) \/ W_Reenter(w)

\* callbacks are subscribed to the Bot's events, one of them re-entering
ReenterNext ==
    \/ \E cb \in {"f"} \cup Reentering, a \in SubArgs : Subscribe(BotName, cb, a)
    \/ \E ty \in EventTypes : Publish(BotName, ty)
    \/ Start
    \/ \E w \in Workers : W_Loop(w)
    \/ \E w \in Workers : W_Get(w)
    \/ \E w \in Workers : W_Lock(w)
    \/ \E w \in Workers : W_Exact(w)
    \/ \E w \in Workers : W_All(w)
    \/ \E w \in Workers : W_Reenter(w)

SpecReenter ==
    /\ BusInit
    /\ [][ReenterNext]_vars
    /\ \A w \in Workers : WF_vars(DispatchNext(w))

\* ================================================================== Botman
BotmanName == "botman"
BotmanEvent(type, description) == BotEvent(BotmanName, type, description, 0)

\* a caller enters method m of the Botman
Call(c, m) ==
    /\ cpc[c] = "ready"
    /\ nops < MaxOps
    /\ nops' = nops + 1
    /\ cop' = [cop EXCEPT ![c] = m]

\* ThreadPoolExecutor.submit: RuntimeError once the pool has been shut down
SubmitRaises == pool_shutdown

\* self.bots.remove(bot): the first occurrence
RemoveFirst(lst, b) ==
    LET i == Min({k \in DOMAIN lst : lst[k] = b})
    IN SubSeq(lst, 1, i - 1) \o SubSeq(lst, i + 1, Len(lst))
InList(lst, b) == \E k \in DOMAIN lst : lst[k] = b

\* lines 30-46: add_bot
Add_bot(c) ==
    /\ Call(c, "add_bot")
    /\ sched_lock = NoThread
    /\ Len(bots) < MaxBots
    /\ bots' = Append(bots, BotName)
    /\ queue' = publish(queue, BotmanEvent("info", "added"))
    /\ cres' = [cres EXCEPT ![c] = "None"]
    /\ UNCHANGED <<sched_running, sched_lock, pool_shutdown, pending, wtask,
                   loopVars, cpc>>
    /\ UNCHANGED <<botVars, cfgVars, refVars, now, thrVars, busVars>>

\* lines 78-79: remove_bot takes the lock; if bot in self.bots
Remove_bot_Begin(c) ==
    /\ Call(c, "remove_bot")
    /\ sched_lock = NoThread
    /\ IF InList(bots, BotName)
       THEN /\ sched_lock' = c
            /\ cpc' = [cpc EXCEPT ![c] = "remove_unsub"]
            /\ cres' = [cres EXCEPT ![c] = "none"]
       ELSE /\ cres' = [cres EXCEPT ![c] = "None"]
            /\ UNCHANGED <<sched_lock, cpc>>
    /\ UNCHANGED <<bots, sched_running, pool_shutdown, pending, wtask, loopVars>>
    /\ UNCHANGED <<botVars, cfgVars, refVars, now, thrVars, queue, busVars>>

\* mutant: remove_bot leaves the subscriptions alone
RemoveBotKeeps(subs) == subs

\* line 80: GLOBAL_EVENT_MANAGER.unsubscribe(bot.name)
RemoveBotUnsubscribes(subs) == unsubscribe(subs, BotName, NoCallback, FALSE, <<>>)

\* lines 80-89: unsubscribe(bot.name) under the EventManager's lock, remove
\* the bot, publish, release the Botman's lock
Remove_bot_Unsub(c) ==
    /\ cpc[c] = "remove_unsub"
    /\ bus_lock = NoThread
    /\ subscriptions' = RemoveBotUnsubscribes(subscriptions)
    /\ api' = ApiCall("unsubscribe", "", "", <<FALSE, <<>>>>)
    /\ bots' = RemoveFirst(bots, BotName)
    /\ queue' = publish(queue, BotmanEvent("info", "removed"))
    /\ sched_lock' = NoThread
    /\ cpc' = [cpc EXCEPT ![c] = "ready"]
    /\ cres' = [cres EXCEPT ![c] = "None"]
    /\ UNCHANGED <<sched_running, pool_shutdown, pending, wtask, loopVars, cop, nops>>
    /\ UNCHANGED <<bus_running, bus_lock, wpc, wev, widx, wcalls, wraised,
                   npublished, dispatched, napi>>
    /\ UNCHANGED <<botVars, cfgVars, refVars, now, thrVars>>

\* lines 169-180: start, under the lock
Start_Begin(c) ==
    /\ Call(c, "start")
    /\ sched_lock = NoThread
    /\ IF sched_running
       THEN /\ cres' = [cres EXCEPT ![c] = "None"]
            /\ UNCHANGED <<sched_running, queue, cpc>>
       ELSE /\ sched_running' = TRUE
            /\ queue' = publish(queue, BotmanEvent("info", "started"))
            /\ cpc' = [cpc EXCEPT ![c] = "start_submit"]
            /\ cres' = [cres EXCEPT ![c] = "none"]
    /\ UNCHANGED <<bots, sched_lock, pool_shutdown, pending, wtask, loopVars>>
    /\ UNCHANGED <<botVars, cfgVars, refVars, now, thrVars, busVars>>

\* line 182: self._executor.submit(self._loop); the pool gives it a thread
Start_Submit(c) ==
    /\ cpc[c] = "start_submit"
    /\ IF SubmitRaises
       THEN /\ cres' = [cres EXCEPT ![c] = "RuntimeError"]
            /\ UNCHANGED lpc
       ELSE /\ cres' = [cres EXCEPT ![c] = "None"]
            /\ \E l \in Loops :
                 /\ lpc[l] = "none"
                 /\ lpc' = [lpc EXCEPT ![l] = "while"]
    /\ cpc' = [cpc EXCEPT ![c] = "ready"]
    /\ UNCHANGED <<bots, sched_running, sched_lock, pool_shutdown, pending, wtask,
                   l_now, l_i, next_times, bots_to_run, l_scan, sleep_time, l_wake,
                   cop, nops>>
    /\ UNCHANGED <<botVars, cfgVars, refVars, now, thrVars, queue, busVars>>

\* lines 186-198: stop, under the lock
Stop_Begin(c) ==
    /\ Call(c, "stop")
    /\ sched_lock = NoThread
    /\ IF ~sched_running
       THEN /\ cres' = [cres EXCEPT ![c] = "None"]
            /\ UNCHANGED <<sched_running, queue, cpc>>
       ELSE /\ sched_running' = FALSE
            /\ queue' = publish(queue, BotmanEvent("info", "stopping"))
            /\ cpc' = [cpc EXCEPT ![c] = "stop_shutdown"]
            /\ cres' = [cres EXCEPT ![c] = "none"]
    /\ UNCHANGED <<bots, sched_lock, pool_shutdown, pending, wtask, loopVars>>
    /\ UNCHANGED <<botVars, cfgVars, refVars, now, thrVars, busVars>>

\* line 200: self._executor.shutdown(wait=True) closes the pool to new work
Stop_Shutdown(c) ==
    /\ cpc[c] = "stop_shutdown"
    /\ pool_shutdown' = TRUE
    /\ cpc' = [cpc EXCEPT ![c] = "stop_wait"]
    /\ UNCHANGED <<bots, sched_running, sched_lock, pending, wtask, loopVars,
                   cop, cres, nops>>
    /\ UNCHANGED <<botVars, cfgVars, refVars, now, thrVars, queue, busVars>>

\* shutdown(wait=True) joins the pool's threads: every work item submitted
\* has been executed and no thread is executing one
PoolDrained ==
    /\ pending = 0
    /\ \A t \in Threads : wtask[t] = "idle"
    /\ \A l \in Loops : lpc[l] = "none"

\* lines 200-208: the shutdown returns, "Botman stopped" is published
Stop_Wait(c) ==
    /\ cpc[c] = "stop_wait"
    /\ PoolDrained
    /\ queue' = publish(queue, BotmanEvent("info", "stopped"))
    /\ cpc' = [cpc EXCEPT ![c] = "ready"]
    /\ cres' = [cres EXCEPT ![c] = "None"]
    /\ UNCHANGED <<bots, sched_running, sched_lock, pool_shutdown, pending, wtask,
                   loopVars, cop, nops>>
    /\ UNCHANGED <<botVars, cfgVars, refVars, now, thrVars, busVars>>

\* ------------------------------------------------- the pool's run threads
\* a pool thread takes a bot.run work item
Pool_Take(t) ==
    /\ wtask[t] = "idle"
    /\ pc[t] = "ready"
    /\ pending > 0
    /\ pending' = pending - 1
    /\ wtask' = [wtask EXCEPT ![t] = "run"]
    /\ UNCHANGED <<bots, sched_running, sched_lock, pool_shutdown, loopVars, callVars>>
    /\ UNCHANGED <<botVars, cfgVars, refVars, now, thrVars, queue, busVars>>

\* line 109: the work item is bot.run, with set_last_run at its default
Pool_Run(t) ==
    /\ wtask[t] = "run"
    /\ Run_Begin(t, TRUE)

\* bot.run has returned or raised: the future is set, the thread is free
Pool_Done(t) ==
    /\ wtask[t] = "run"
    /\ pc[t] = "done"
    /\ wtask' = [wtask EXCEPT ![t] = "idle"]
    /\ pc' = [pc EXCEPT ![t] = "ready"]
    /\ op' = [op EXCEPT ![t] = "none"]
    /\ arg' = [arg EXCEPT ![t] = FALSE]
    /\ result' = [result EXCEPT ![t] = "none"]
    /\ calls' = [calls EXCEPT ![t] = 0]
    /\ current_try' = [current_try EXCEPT ![t] = 0]
    /\ emitted' = [emitted EXCEPT ![t] = <<>>]
    /\ UNCHANGED <<wake, now_l, rval>>
    /\ UNCHANGED <<bots, sched_running, sched_lock, pool_shutdown, pending,
                   loopVars, callVars>>
    /\ UNCHANGED <<botVars, cfgVars, refVars, now, queue, busVars>>

\* ------------------------------------------------------------ Botman._loop
\* durations in half seconds: sleep_time = 5, max(0.5, ...), min(..., 120)
SleepDefault == 10
SleepFloor == 1
SleepCeiling == 240
HalfSeconds(d) == 2 * d

\* mutant: the longest sleep is not capped
SleepTimeUncapped(nt, n) ==
    IF nt = <<>> THEN SleepDefault
    ELSE LET d == HalfSeconds(Min({nt[i] : i \in DOMAIN nt}) - n)
         IN IF d < SleepFloor THEN SleepFloor ELSE d

\* lines 157-160: sleep_time = 5; if next_times: sleep_time =
\* max(0.5, min((min(next_times) - now).total_seconds(), 120))
SleepTime(nt, n) ==
    IF nt = <<>> THEN SleepDefault
    ELSE LET d == HalfSeconds(Min({nt[i] : i \in DOMAIN nt}) - n)
             capped == IF d < SleepCeiling THEN d ELSE SleepCeiling
         IN IF capped > SleepFloor THEN capped ELSE SleepFloor

\* time.sleep(sleep_time) read on a clock of whole seconds: a sleep of half a
\* second has ended by the next second
WakeInstant(n, half_seconds) == n + (half_seconds + 1) \div 2

\* what the scan found for a bot: the state read on line 134, and what
\* is_in_timeout() and is_due(False) returned ("-": not called)
Found(running, timeout, due) == [running |-> running, timeout |-> timeout, due |-> due]
SetLast(seq, x) == [seq EXCEPT ![Len(seq)] = x]

\* the loop thread ends: its locals are gone
LoopEnds(l) ==
    /\ lpc' = [lpc EXCEPT ![l] = "none"]
    /\ l_now' = [l_now EXCEPT ![l] = 0]
    /\ l_i' = [l_i EXCEPT ![l] = 0]
    /\ next_times' = [next_times EXCEPT ![l] = <<>>]
    /\ bots_to_run' = [bots_to_run EXCEPT ![l] = <<>>]
    /\ l_scan' = [l_scan EXCEPT ![l] = <<>>]
    /\ sleep_time' = [sleep_time EXCEPT ![l] = 0]
    /\ l_wake' = [l_wake EXCEPT ![l] = 0]

\* the loop thread has read what the Bot's method returned
TakeResult(l) ==
    /\ pc' = [pc EXCEPT ![l] = "ready"]
    /\ op' = [op EXCEPT ![l] = "none"]
    /\ result' = [result EXCEPT ![l] = "none"]
    /\ rval' = [rval EXCEPT ![l] = NoneT]
    /\ UNCHANGED <<arg, current_try, wake, now_l, calls, emitted>>

\* lines 127-130: while self.running: now = datetime.now(); the lists are empty
L_While(l) ==
    /\ lpc[l] = "while"
    /\ IF sched_running
       THEN /\ lpc' = [lpc EXCEPT ![l] = "lock"]
            /\ l_now' = [l_now EXCEPT ![l] = now]
            /\ l_i' = [l_i EXCEPT ![l] = 0]
            /\ next_times' = [next_times EXCEPT ![l] = <<>>]
            /\ bots_to_run' = [bots_to_run EXCEPT ![l] = <<>>]
            /\ l_scan' = [l_scan EXCEPT ![l] = <<>>]
            /\ sleep_time' = [sleep_time EXCEPT ![l] = 0]
            /\ l_wake' = [l_wake EXCEPT ![l] = 0]
       ELSE LoopEnds(l)
    /\ UNCHANGED <<bots, sched_running, sched_lock, pool_shutdown, pending, wtask,
                   callVars>>
    /\ UNCHANGED <<botVars, cfgVars, refVars, now, thrVars, queue, busVars>>

\* line 132: with self._lock
L_Lock(l) ==
    /\ lpc[l] = "lock"
    /\ sched_lock = NoThread
    /\ sched_lock' = l
    /\ l_i' = [l_i EXCEPT ![l] = 1]
    /\ lpc' = [lpc EXCEPT ![l] = "scan"]
    /\ UNCHANGED <<bots, sched_running, pool_shutdown, pending, wtask, l_now,
                   next_times, bots_to_run, l_scan, sleep_time, l_wake, callVars>>
    /\ UNCHANGED <<botVars, cfgVars, refVars, now, thrVars, queue, busVars>>

\* line 134: if bot.metrics.state == BotState.RUNNING: continue
ScanSkips(s) == s = "running"

\* lines 133-135 and the end of the with block
L_Scan(l) ==
    /\ lpc[l] = "scan"
    /\ IF l_i[l] > Len(bots)
       THEN /\ sched_lock' = NoThread
            /\ lpc' = [lpc EXCEPT ![l] = "submit"]
            /\ UNCHANGED <<l_i, l_scan>>
       ELSE /\ l_scan' = [l_scan EXCEPT ![l] =
                             Append(@, Found(state = "running", "-", "-"))]
            /\ IF ScanSkips(state)
               THEN /\ l_i' = [l_i EXCEPT ![l] = @ + 1]
                    /\ UNCHANGED lpc
               ELSE /\ lpc' = [lpc EXCEPT ![l] = "timeout?"]
                    /\ UNCHANGED l_i
            /\ UNCHANGED sched_lock
    /\ UNCHANGED <<bots, sched_running, pool_shutdown, pending, wtask, l_now,
                   next_times, bots_to_run, sleep_time, l_wake, callVars>>
    /\ UNCHANGED <<botVars, cfgVars, refVars, now, thrVars, queue, busVars>>

\* line 137: bot.is_in_timeout()
L_Is_in_timeout(l) ==
    /\ lpc[l] = "timeout?"
    /\ Is_in_timeout(l)

\* lines 137-140: if it is in timeout its timeout_until (if any) is a
\* candidate; continue
L_AfterTimeout(l) ==
    /\ lpc[l] = "timeout?"
    /\ pc[l] = "done"
    /\ TakeResult(l)
    /\ l_scan' = [l_scan EXCEPT ![l] =
                     SetLast(@, Found(@[Len(@)].running, result[l], "-"))]
    /\ IF result[l] = "True"
       THEN /\ next_times' = [next_times EXCEPT ![l] =
                                 IF timeout_until # NoneT
                                 THEN Append(@, timeout_until) ELSE @]
            /\ l_i' = [l_i EXCEPT ![l] = @ + 1]
            /\ lpc' = [lpc EXCEPT ![l] = "scan"]
       ELSE /\ lpc' = [lpc EXCEPT ![l] = "due?"]
            /\ UNCHANGED <<next_times, l_i>>
    /\ UNCHANGED <<bots, sched_running, sched_lock, pool_shutdown, pending, wtask,
                   l_now, bots_to_run, sleep_time, l_wake, callVars>>
    /\ UNCHANGED <<botVars, cfgVars, refVars, now, queue, busVars>>

\* line 142: bot.is_due(False)
L_Is_due(l) ==
    /\ lpc[l] = "due?"
    /\ (Is_due_Begin(l, FALSE) \/ Is_due_Next(l) \/ Is_due_Return(l))

\* mutant: the bot is to run whatever is_due returned
DueToRunAlways(r) == TRUE

\* line 142: if bot.is_due(False)
DueToRun(r) == r = "True"

\* lines 142-150: a due bot is to run, and "scheduled to run" is published
L_AfterDue(l) ==
    /\ lpc[l] = "due?"
    /\ pc[l] = "done"
    /\ TakeResult(l)
    /\ l_scan' = [l_scan EXCEPT ![l] =
                     SetLast(@, Found(@[Len(@)].running, @[Len(@)].timeout, result[l]))]
    /\ IF DueToRun(result[l])
       THEN /\ bots_to_run' = [bots_to_run EXCEPT ![l] = Append(@, bots[l_i[l]])]
            /\ queue' = publish(queue, BotmanEvent("debug", "scheduled"))
            /\ l_i' = [l_i EXCEPT ![l] = @ + 1]
            /\ lpc' = [lpc EXCEPT ![l] = "scan"]
       ELSE /\ lpc' = [lpc EXCEPT ![l] = "next?"]
            /\ UNCHANGED <<bots_to_run, queue, l_i>>
    /\ UNCHANGED <<bots, sched_running, sched_lock, pool_shutdown, pending, wtask,
                   l_now, next_times, sleep_time, l_wake, callVars>>
    /\ UNCHANGED <<botVars, cfgVars, refVars, now, busVars>>

\* line 152: bot.get_next_run()
L_Get_next_run(l) ==
    /\ lpc[l] = "next?"
    /\ (Get_next_run(l) \/ Get_next_run_Return(l))

\* lines 151-152: the next run of a bot that is not due is a candidate
L_AfterNext(l) ==
    /\ lpc[l] = "next?"
    /\ pc[l] = "done"
    /\ TakeResult(l)
    /\ next_times' = [next_times EXCEPT ![l] = Append(@, rval[l])]
    /\ l_i' = [l_i EXCEPT ![l] = @ + 1]
    /\ lpc' = [lpc EXCEPT ![l] = "scan"]
    /\ UNCHANGED <<bots, sched_running, sched_lock, pool_shutdown, pending, wtask,
                   l_now, bots_to_run, l_scan, sleep_time, l_wake, callVars>>
    /\ UNCHANGED <<botVars, cfgVars, refVars, now, queue, busVars>>

\* lines 154-155: self.run_bot(bot) for the next bot of bots_to_run; a
\* RuntimeError of submit ends the loop's thread
L_Submit(l) ==
    /\ lpc[l] = "submit"
    /\ bots_to_run[l] # <<>>
    /\ queue' = publish(queue, BotmanEvent("debug", "running bot"))
    /\ IF SubmitRaises
       THEN /\ LoopEnds(l)
            /\ UNCHANGED pending
       ELSE /\ pending < MaxPending
            /\ pending' = pending + 1
            /\ bots_to_run' = [bots_to_run EXCEPT ![l] = Tail(@)]
            /\ UNCHANGED <<lpc, l_now, l_i, next_times, l_scan, sleep_time, l_wake>>
    /\ UNCHANGED <<bots, sched_running, sched_lock, pool_shutdown, wtask, callVars>>
    /\ UNCHANGED <<botVars, cfgVars, refVars, now, thrVars, busVars>>

\* lines 159-160: min(next_times) and min_next_time - now raise a TypeError
\* on a None, which ends the loop's thread
TimesComparable(nt) == \A i \in DOMAIN nt : nt[i] # NoneT

\* lines 157-165: the sleep time; if not self.running: break; time.sleep
L_Sleep(l) ==
    /\ lpc[l] = "submit"
    /\ bots_to_run[l] = <<>>
    /\ IF sched_running /\ TimesComparable(next_times[l])
       THEN /\ sleep_time' = [sleep_time EXCEPT ![l] = SleepTime(next_times[l], l_now[l])]
            /\ l_wake' = [l_wake EXCEPT ![l] =
                            WakeInstant(now, SleepTime(next_times[l], l_now[l]))]
            /\ lpc' = [lpc EXCEPT ![l] = "sleeping"]
            /\ UNCHANGED <<l_now, l_i, next_times, bots_to_run, l_scan>>
       ELSE LoopEnds(l)
    /\ UNCHANGED <<bots, sched_running, sched_lock, pool_shutdown, pending, wtask,
                   callVars>>
    /\ UNCHANGED <<botVars, cfgVars, refVars, now, thrVars, queue, busVars>>

\* line 165: time.sleep returns
L_Wake(l) ==
    /\ lpc[l] = "sleeping"
    /\ now >= l_wake[l]
    /\ lpc' = [lpc EXCEPT ![l] = "while"]
    /\ UNCHANGED <<l_now, l_i, next_times, bots_to_run, l_scan, sleep_time, l_wake>>
    /\ UNCHANGED <<bots, sched_running, sched_lock, pool_shutdown, pending, wtask,
                   callVars>>
    /\ UNCHANGED <<botVars, cfgVars, refVars, now, thrVars, queue, busVars>>

\* ----------------------------------------------------- the Botman's system
\* the schedules of the Bot a Botman is given: due early, far from due, the
\* empty list (which the loop of bot.py:71-75 accepts), or a list to which
\* add_schedule has appended a text that does not parse
SchedSchedules == {<<3, 2>>, <<300>>, <<>>, <<2, 0>>}

\* run_bot(bot) calls made before start(), each submitting one bot.run: none,
\* or one for the Bot without retries
RunBotCalls(r, s) == IF r = 0 /\ s = <<3, 2>> THEN {0, 1} ELSE {0}

\* a Bot and a Botman just constructed and add_bot(bot) called, beside an
\* EventManager nobody starts
SchedInit ==
    /\ state = "idle" /\ runs = 0 /\ errors = 0
    /\ last_run = NoneT /\ timeout_until = NoneT /\ bot_lock = NoThread
    /\ retries \in 0..MaxRetries
    /\ initial_timeout \in InitialTimeouts
    /\ retry_delay = CapRetryDelay(0)
    /\ schedule \in SchedSchedules
    /\ now = 0
    /\ ThreadsReady
    /\ RefFields
    /\ \E p \in RunBotCalls(retries, schedule) :
          /\ pending = p
          /\ queue = IF p = 0 THEN <<BotmanEvent("info", "added")>>
                     ELSE <<BotmanEvent("info", "added"),
                            BotmanEvent("debug", "running bot")>>
    /\ BusFields
    /\ bots = <<BotName>>
    /\ SchedRest

LoopNext(l) ==
    \/ L_While(l) \/ L_Lock(l) \/ L_Scan(l)
    \/ L_Is_in_timeout(l) \/ L_AfterTimeout(l)
    \/ L_Is_due(l) \/ L_AfterDue(l)
    \/ L_Get_next_run(l) \/ L_AfterNext(l)
    \/ L_Submit(l) \/ L_Sleep(l) \/ L_Wake(l)

PoolNext(t) ==
    \/ Pool_Take(t) \/ Pool_Run(t) \/ Pool_Done(t)
    \/ Run_Loop(t) \/ Run_Call(t) \/ Run_FnReturn(t) \/ Run_FnRaise(t)
    \/ Run_Except(t) \/ Run_Wake(t) \/ Run_Timeout(t)

CallerNext(c) ==
    \/ Start_Begin(c) \/ Start_Submit(c)
    \/ Stop_Begin(c) \/ Stop_Shutdown(c) \/ Stop_Wait(c)

\* one thread calls start() and stop()
SchedNext ==
    \/ \E c \in {"c1"} : CallerNext(c)
    \/ \E l \in Loops : LoopNext(l)
    \/ \E t \in Threads : PoolNext(t)
    \/ Tick

SpecSched == SchedInit /\ [][SchedNext]_vars

\* two threads call start() and stop()
RaceInit ==
    /\ SchedInit
    /\ retries = 1 /\ initial_timeout = 1 /\ schedule = <<3, 2>>

RaceNext ==
    \/ \E c \in Callers : CallerNext(c)
    \/ \E l \in Loops : LoopNext(l)
    \/ \E t \in {"t1"} : PoolNext(t)
    \/ Tick

SpecRace == RaceInit /\ [][RaceNext]_vars

\* every thread that exists keeps being scheduled, the clock advances, and a
\* call of start() or stop() that has begun goes on; every function a run
\* calls returns or raises
CallerContinues(c) == Start_Submit(c) \/ Stop_Shutdown(c) \/ Stop_Wait(c)

SpecSchedFair ==
    /\ SpecSched
    /\ \A l \in Loops : WF_vars(LoopNext(l))
    /\ \A t \in Threads : WF_vars(PoolNext(t))
    /\ WF_vars(CallerContinues("c1"))
    /\ WF_vars(Tick)

\* a Botman whose bot is added and removed while callbacks are subscribed to
\* the bot's name and events are published under it
RemoveInit ==
    /\ state = "idle" /\ runs = 0 /\ errors = 0
    /\ last_run = NoneT /\ timeout_until = NoneT /\ bot_lock = NoThread
    /\ retries = MaxRetries /\ initial_timeout = 1
    /\ retry_delay = CapRetryDelay(1) /\ schedule = <<3, 2>>
    /\ now = 0
    /\ ThreadsReady
    /\ RefFields
    /\ queue = <<>>
    /\ BusFields
    /\ SchedFields

RemoveNext ==
    \/ \E c \in {"c1"} : Add_bot(c)
    \/ \E c \in {"c1"} : Remove_bot_Begin(c)
    \/ \E c \in {"c1"} : Remove_bot_Unsub(c)
    \/ \E cb \in Callbacks, a \in SubArgs : Subscribe(BotName, cb, a)
    \/ \E ty \in EventTypes : Publish(BotName, ty)
    \/ Start
    \/ \E w \in Workers : WorkerNext(w)

SpecRemove == RemoveInit /\ [][RemoveNext]_vars

\* ================================================ Bot.__init__, schedules
MaxSchedule == 3
Expressions == {0, 2, 3}
\* the schedule argument: one expression, or a list of expressions
ScheduleArgs ==
    {[is_list |-> FALSE, exprs |-> <<e>>] : e \in Expressions}
      \cup {[is_list |-> TRUE, exprs |-> <<>>]}
      \cup {[is_list |-> TRUE, exprs |-> <<e>>] : e \in Expressions}
      \cup {[is_list |-> TRUE, exprs |-> <<e, f>>] : e \in Expressions, f \in Expressions}

\* line 37: schedule if isinstance(schedule, list) else [schedule]
AsList(a) == a.exprs

\* lines 71-75: croniter(schedule) for each; any exception becomes ValueError
Validates(sch) == \A i \in DOMAIN sch : Parses(sch[i])

\* lines 18-75: Bot(name, schedule, function, ...).  The fields are assigned
\* before the schedules are checked; a ValueError leaves the caller without
\* the object.
Bot_init(a) ==
    /\ bot_ref # "bot"
    /\ schedule' = AsList(a)
    /\ state' = "idle" /\ runs' = 0 /\ errors' = 0
    /\ last_run' = NoneT /\ timeout_until' = NoneT
    /\ bot_ref' = IF Validates(AsList(a)) THEN "bot" ELSE "ValueError"
    /\ UNCHANGED <<bot_lock, retries, initial_timeout, retry_delay, snap, now, thrVars,
                   queue, busVars, schedVars>>

\* lines 209-211: add_schedule appends the text as it is
Add_schedule(e) ==
    /\ bot_ref = "bot"
    /\ Len(schedule) < MaxSchedule
    /\ schedule' = Append(schedule, e)
    /\ UNCHANGED <<botVars, retries, initial_timeout, retry_delay, refVars, now,
                   thrVars, queue, busVars, schedVars>>

\* lines 213-215: list.remove, a ValueError when the text is not in the list
Remove_schedule(e) ==
    /\ bot_ref = "bot"
    /\ schedule' = IF InList(schedule, e) THEN RemoveFirst(schedule, e) ELSE schedule
    /\ UNCHANGED <<botVars, retries, initial_timeout, retry_delay, refVars, now,
                   thrVars, queue, busVars, schedVars>>

\* nothing constructed yet but the Botman and the EventManager
BuildInit ==
    /\ state = "idle" /\ runs = 0 /\ errors = 0
    /\ last_run = NoneT /\ timeout_until = NoneT /\ bot_lock = NoThread
    /\ retries = 1 /\ initial_timeout = 1
    /\ retry_delay = CapRetryDelay(1) /\ schedule = <<>>
    /\ now = 0
    /\ ThreadsReady
    /\ bot_ref = "none"
    /\ snap = [c \in Callers |-> NoSnapshot]
    /\ queue = <<>>
    /\ BusFields
    /\ SchedFields

\* a caller constructs the Bot, edits its schedules, gives it to the Botman
\* and asks for its next run
BuildNext ==
    \/ \E a \in ScheduleArgs : Bot_init(a)
    \/ \E e \in Expressions : Add_schedule(e)
    \/ \E e \in Expressions : Remove_schedule(e)
    \/ bot_ref = "bot" /\ Add_bot("c1")
    \/ bot_ref = "bot" /\ Get_next_run("t1")
    \/ Return("t1")
    \/ Tick

SpecBuild == BuildInit /\ [][BuildNext]_vars

\* ================================================= Botman.get_bot_metrics
\* bot.metrics (btm_types.py:12-18; since never changes and is left out)
metrics == [runs |-> runs, errors |-> errors, last_run |-> last_run, state |-> state]

\* a reference a caller holds: to an object of its own with the fields val,
\* or (alias) to the Bot's own metrics object
\* mutant: the Bot's own object is returned
SameObject(m) == [alias |-> TRUE, val |-> m]

\* lines 218, 233: copy.deepcopy(bot.metrics), taken in one step
deepcopy(m) == [alias |-> FALSE, val |-> m]

\* the fields read through a reference
Fields(o) == IF o.alias THEN metrics ELSE o.val

\* the names get_bot_metrics_by_name is asked for
Names == {BotName, "other"}

\* lines 210-218: get_bot_metrics
Get_bot_metrics(c) ==
    /\ Call(c, "get_bot_metrics")
    /\ sched_lock = NoThread
    /\ snap' = [snap EXCEPT ![c] =
                  [kind |-> "list", items |-> [i \in DOMAIN bots |-> deepcopy(metrics)]]]
    /\ cres' = [cres EXCEPT ![c] = "list"]
    /\ UNCHANGED <<bots, sched_running, sched_lock, pool_shutdown, pending, wtask,
                   loopVars, cpc>>
    /\ UNCHANGED <<botVars, cfgVars, bot_ref, now, thrVars, queue, busVars>>

\* lines 220-234: get_bot_metrics_by_name: the first bot of that name, or None
Get_bot_metrics_by_name(c, name) ==
    /\ Call(c, "get_bot_metrics_by_name")
    /\ sched_lock = NoThread
    /\ IF InList(bots, name)
       THEN /\ snap' = [snap EXCEPT ![c] =
                          [kind |-> "object", items |-> <<deepcopy(metrics)>>]]
            /\ cres' = [cres EXCEPT ![c] = "BotMetrics"]
       ELSE /\ snap' = [snap EXCEPT ![c] = [kind |-> "None", items |-> <<>>]]
            /\ cres' = [cres EXCEPT ![c] = "None"]
    /\ UNCHANGED <<bots, sched_running, sched_lock, pool_shutdown, pending, wtask,
                   loopVars, cpc>>
    /\ UNCHANGED <<botVars, cfgVars, bot_ref, now, thrVars, queue, busVars>>

\* the caller assigns to a field of the first object it was returned:
\* snapshot.runs += 1
Modify_snapshot(c) ==
    /\ snap[c].items # <<>>
    /\ LET o == snap[c].items[1] IN
         /\ Fields(o).runs <= MaxRuns
         /\ IF o.alias
            THEN /\ runs' = runs + 1
                 /\ UNCHANGED snap
            ELSE /\ snap' = [snap EXCEPT ![c].items[1].val.runs = @ + 1]
                 /\ UNCHANGED runs
    /\ UNCHANGED <<state, errors, last_run, timeout_until, bot_lock, cfgVars, bot_ref,
                   now, thrVars, queue, busVars, schedVars>>

\* a Bot that runs and fails, a Botman it is added to and removed from by
\* one caller, and another caller that asks for metrics
MetricsInit ==
    /\ state = "idle" /\ runs = 0 /\ errors = 0
    /\ last_run = NoneT /\ timeout_until = NoneT /\ bot_lock = NoThread
    /\ retries = 1 /\ initial_timeout = 1
    /\ retry_delay = CapRetryDelay(0) /\ schedule = <<3, 2>>
    /\ now = 0
    /\ ThreadsReady
    /\ RefFields
    /\ queue = <<>>
    /\ BusFields
    /\ SchedFields

MetricsNext ==
    \/ \E c \in {"c1"} : Add_bot(c)
    \/ \E c \in {"c1"} : Remove_bot_Begin(c)
    \/ \E c \in {"c1"} : Remove_bot_Unsub(c)
    \/ \E c \in {"c2"} : Get_bot_metrics(c)
    \/ \E c \in {"c2"}, name \in Names : Get_bot_metrics_by_name(c, name)
    \/ \E c \in {"c2"} : Modify_snapshot(c)
    \/ \E slr \in BOOLEAN : Run_Begin("t1", slr)
    \/ Run_Loop("t1") \/ Run_Call("t1") \/ Run_FnReturn("t1") \/ Run_FnRaise("t1")
    \/ Run_Except("t1") \/ Run_Wake("t1") \/ Run_Timeout("t1")
    \/ Return("t1")

SpecMetrics == MetricsInit /\ [][MetricsNext]_vars

\* ------------------------------------ the loop beside the metrics queries
\* a Botman with one Bot, constructed at instant 0 and due at 2, for which
\* run_bot(bot) was called once before start() (as force_execution of
\* src/event_subscriber.py does); the instant is now 2
BlockInit ==
    /\ state = "idle" /\ runs = 0 /\ errors = 0
    /\ last_run = NoneT /\ timeout_until = NoneT /\ bot_lock = NoThread
    /\ retries = 1 /\ initial_timeout = 1
    /\ retry_delay = CapRetryDelay(0) /\ schedule = <<3, 2>>
    /\ now = 2
    /\ ThreadsReady
    /\ RefFields
    /\ pending = 1
    /\ queue = <<BotmanEvent("info", "added"), BotmanEvent("debug", "running bot")>>
    /\ BusFields
    /\ bots = <<BotName>>
    /\ SchedRest

\* one pass of the loop, up to its sleep
PassNext(l) ==
    \/ L_While(l) \/ L_Lock(l) \/ L_Scan(l)
    \/ L_Is_in_timeout(l) \/ L_AfterTimeout(l)
    \/ L_Is_due(l) \/ L_AfterDue(l)
    \/ L_Get_next_run(l) \/ L_AfterNext(l)
    \/ L_Submit(l) \/ L_Sleep(l)

\* one thread calls start() and stop(), another asks for metrics and adds a
\* Bot, while the loop and one pool thread run; all within one instant
BlockNext ==
    \/ \E c \in {"c1"} : CallerNext(c)
    \/ \E l \in Loops : PassNext(l)
    \/ \E t \in {"t1"} : PoolNext(t)
    \/ \E c \in {"c2"} : Get_bot_metrics(c)
    \/ \E c \in {"c2"} : Get_bot_metrics_by_name(c, BotName)
    \/ \E c \in {"c2"} : Add_bot(c)

SpecBlock == BlockInit /\ [][BlockNext]_vars

\* ======================================== EventManager.wait_until_empty
\* Queue.unfinished_tasks: the events put and not yet followed by the
\* task_done() of line 80
Unfinished ==
    Len(queue) + Cardinality({w \in Workers : wpc[w] \in {"lock", "exact", "all"}})

\* the timeouts wait_until_empty is given, in seconds
Timeouts == {1}

\* lines 110-113: wait_until_empty(timeout) calls self._queue.join(); the
\* timeout is not passed on.  wake keeps the instant at which it elapses.
Wait_until_empty_Begin(t, given, d) ==
    /\ Enter(t, "wait_until_empty", given)
    /\ pc' = [pc EXCEPT ![t] = "joining"]
    /\ wake' = [wake EXCEPT ![t] = IF given THEN now + d ELSE 0]
    /\ UNCHANGED <<botVars, cfgVars, refVars, now, current_try, now_l, result, rval,
                   calls, emitted, queue>>
    /\ UNCHANGED <<busVars, schedVars>>

\* lines 113-115: Queue.join() returns when unfinished_tasks is 0
Wait_until_empty_Return(t) ==
    /\ pc[t] = "joining"
    /\ Unfinished = 0
    /\ Leave(t, "None")
    /\ wake' = [wake EXCEPT ![t] = 0]
    /\ UNCHANGED <<botVars, cfgVars, refVars, now, op, arg, current_try, now_l, rval,
                   calls, emitted, queue>>
    /\ UNCHANGED <<busVars, schedVars>>

DrainNext ==
    \/ \E n \in PublishTopics, ty \in EventTypes : Publish(n, ty)
    \/ Start
    \/ Stop
    \/ \E w \in Workers : WorkerNext(w)
    \/ \E given \in BOOLEAN, d \in Timeouts : Wait_until_empty_Begin("t1", given, d)
    \/ Wait_until_empty_Return("t1")
    \/ Return("t1")
    \/ Tick

\* every worker thread that exists keeps being scheduled, a join that can
\* return does, and the clock advances
SpecDrain ==
    /\ BusInit
    /\ [][DrainNext]_vars
    /\ \A w \in Workers : WF_vars(WorkerNext(w))
    /\ WF_vars(Wait_until_empty_Return("t1"))
    /\ WF_vars(Tick)

\* ================================================================= claims
\* steps and states the claims speak about
RunCall(t) == pc[t] = "ready" /\ pc'[t] # "ready" /\ op'[t] = "run"
IsInTimeoutCall(t) == pc[t] = "ready" /\ pc'[t] = "done" /\ op'[t] = "is_in_timeout"
RunReturned(t) == pc[t] = "done" /\ op[t] = "run"
InFunction == {t \in Threads : pc[t] = "run_fn"}
\* the step in which a run() whose every attempt failed returns
ExhaustedReturn(t) ==
    /\ op[t] = "run" /\ pc[t] # "done" /\ pc[t] # "ready" /\ pc'[t] = "done"
    /\ current_try[t] = retries /\ current_try[t] >= 1
\* a returned run() whose every attempt failed
Exhausted(t) == RunReturned(t) /\ current_try[t] = retries /\ calls[t] >= 1

\* C1: at no instant are two threads inside workFn, and a run() call that
\* finds the job Running returns False without invoking workFn.
C1_NoConcurrentRun ==
    /\ [](Cardinality(InFunction) <= 1)
    /\ [][\A t \in Threads :
            (RunCall(t) /\ state = "running") =>
                /\ pc'[t] = "done" /\ result'[t] = "False"
                /\ calls'[t] = 0 /\ runs' = runs /\ InFunction' = InFunction]_vars

\* one thread is inside workFn while the other's run() has returned False
C1_Witness ==
    \E t, u \in Threads :
        /\ pc[t] = "run_fn" /\ state = "running"
        /\ RunReturned(u) /\ result[u] = "False"

\* C2: run() called while the state is Timeout returns False at once and
\* leaves state, runs, errors, last_run, timeout_until and the queue as they
\* are, also when timeout_until has already elapsed.
C2_RunInTimeoutIsNoOp ==
    [][\A t \in Threads :
          (RunCall(t) /\ state = "timeout") =>
              /\ pc'[t] = "done" /\ result'[t] = "False" /\ calls'[t] = 0
              /\ UNCHANGED <<state, runs, errors, last_run, timeout_until, queue>>
              /\ emitted'[t] = <<>>]_vars

\* run() has returned False with the job in a Timeout that has elapsed
C2_Witness ==
    \E t \in Threads :
        /\ RunReturned(t) /\ result[t] = "False"
        /\ state = "timeout" /\ timeout_until # NoneT /\ now >= timeout_until

C4_IsInTimeout ==
    [][\A t \in Threads :
          IsInTimeoutCall(t) =>
              /\ (state = "timeout" /\ now >= timeout_until) =>
                     /\ state' = "idle" /\ timeout_until' = NoneT
                     /\ result'[t] = "False"
              /\ (state = "timeout" /\ now < timeout_until) =>
                     /\ result'[t] = "True"
                     /\ UNCHANGED <<state, timeout_until>>
              /\ state # "timeout" =>
                     /\ result'[t] = "False"
                     /\ UNCHANGED <<state, timeout_until>>
              /\ UNCHANGED <<runs, errors, last_run, queue>>]_vars

\* is_in_timeout() has returned False after taking the job out of a Timeout
\* that no attempt of workFn ended
C4_Witness ==
    \E t \in Threads :
        /\ pc[t] = "done" /\ op[t] = "is_in_timeout" /\ result[t] = "False"
        /\ state = "idle" /\ timeout_until = NoneT
        /\ errors >= 1 /\ runs = errors

\* C5: the state leaves Timeout only in a step of is_in_timeout() taken at
\* now >= timeout_until; no other method and no passage of time does it.
C5_OnlyLazyExpiry ==
    [][(state = "timeout" /\ state' # "timeout") =>
          \E t \in Threads :
              /\ IsInTimeoutCall(t)
              /\ timeout_until # NoneT /\ now >= timeout_until
              /\ state' = "idle"]_vars

\* the job left Timeout through is_in_timeout() while run(), is_due(),
\* get_next_run() or set_last_run() had been called during the Timeout
C5_Witness ==
    \E t, u \in Threads :
        /\ pc[t] = "done" /\ op[t] = "is_in_timeout" /\ result[t] = "False"
        /\ pc[u] = "done" /\ op[u] \in {"run", "is_due", "get_next_run", "set_last_run"}
        /\ op[u] = "run" => result[u] = "False"
        /\ op[u] = "is_due" => result[u] = "False"
        /\ state = "idle" /\ timeout_until = NoneT
        /\ errors = retries /\ runs = errors /\ retries >= 1

\* C6: run() never raises; when the final attempt fails it returns a
\* SoftError value.
C6_RunNeverRaises ==
    \A t \in Threads :
        RunReturned(t) =>
            /\ result[t] # "AttributeError"
            /\ Exhausted(t) => result[t] = "SoftError"

\* C7: one run() invokes workFn at most retries times: it stops at the first
\* success, and when every attempt fails it invokes it exactly retries times.
C7_AttemptsBounded ==
    \A t \in Threads :
        /\ op[t] = "run" => calls[t] <= retries
        /\ (RunReturned(t) /\ result[t] = "result") => calls[t] = current_try[t] + 1
        /\ Exhausted(t) => calls[t] = retries

\* a run() has returned after exactly 2 failed attempts with retries = 2
C7_Witness ==
    \E t \in Threads :
        Exhausted(t) /\ retries = 2 /\ calls[t] = 2 /\ current_try[t] = 2

\* the events the claim expects of a run() that made k failed attempts
FailedEvents(k) ==
    [i \in 1..k |->
        BotEvent(BotName, IF i < retries THEN "warning" ELSE "error", "failed", i)]
ExpectedEvents(t) ==
    <<BotEvent(BotName, "info", "started", 0)>>
    \o FailedEvents(current_try[t])
    \o <<IF result[t] = "result"
         THEN BotEvent(BotName, "info", "completed", 0)
         ELSE BotEvent(BotName, "error", "entered timeout", 0)>>

\* C8: an executing run() publishes "started", then one "failed" event per
\* failed attempt (warning before the last attempt, error at the last), then
\* exactly one terminal event: "completed" or "entered timeout".
C8_EventSequence ==
    \A t \in Threads :
        (RunReturned(t) /\ calls[t] >= 1) => emitted[t] = ExpectedEvents(t)

\* number of events with description d published so far (nothing consumes
\* the queue in this specification)
Published(d) == Cardinality({i \in DOMAIN queue : queue[i].description = d})

\* C9: runs counts the successful completions and errors the failed
\* attempts (whenever no attempt is in progress).
C9_RunsCountSuccesses ==
    (InFunction = {} /\ \A t \in Threads : pc[t] # "run_except") =>
        /\ runs = Published("completed")
        /\ errors = Published("failed")

\* the callbacks registered for a topic under a key
RegisteredIn(subs, n, key) ==
    IF n \in DOMAIN subs /\ key \in DOMAIN subs[n] THEN subs[n][key] ELSE <<>>
Count(lst, x) == Cardinality({i \in DOMAIN lst : lst[i] = x})
DispatchEnds(w) == wpc[w] = "all" /\ wpc'[w] = "loop"
SubscribeCall(n, cb) ==
    /\ napi' = napi + 1
    /\ api'.op = "subscribe" /\ api'.bot_name = n /\ api'.callback = cb

\* C10: while the bus stays started every published event is eventually
\* dispatched; a dispatch invokes, once per subscription entry, the callbacks
\* registered for the event's topic under its own type and then those under
\* "all", and no other callback; subscribe() with no types registers the
\* callback under "all", subscribe() with types under each listed type.
C10_Delivery ==
    /\ [][\A w \in Workers :
            DispatchEnds(w) =>
                wcalls[w] =
                    RegisteredIn(subscriptions, wev[w].bot_name, wev[w].event_type)
                    \o RegisteredIn(subscriptions, wev[w].bot_name, "all")]_vars
    /\ [][\A n \in Topics, cb \in Callbacks :
            SubscribeCall(n, cb) =>
                \A key \in EventTypes \cup {"all"} :
                    Count(RegisteredIn(subscriptions', n, key), cb) =
                        Count(RegisteredIn(subscriptions, n, key), cb)
                        + (IF api'.given
                           THEN Count(api'.event_types, key)
                           ELSE IF key = "all" THEN 1 ELSE 0)]_vars
    /\ \A k \in 1..MaxEvents :
          (npublished >= k) ~> (k \in dispatched \/ ~bus_running)

\* a dispatch is about to end that has invoked a callback registered for the
\* event's own type and a callback registered with no types given
C10_Witness ==
    \E w \in Workers :
        LET exact == RegisteredIn(subscriptions, wev[w].bot_name, wev[w].event_type)
            all == RegisteredIn(subscriptions, wev[w].bot_name, "all")
        IN /\ wpc[w] = "all" /\ widx[w] = Len(all) + 1
           /\ exact # <<>> /\ all # <<>>
           /\ wcalls[w] = exact \o all
           /\ api.op = "subscribe" /\ ~api.given

\* the step in which a dispatch worker begins the dispatch of its event
DispatchBegins(w) == wpc[w] = "lock" /\ wpc'[w] = "exact"

\* C11: events are dispatched in publish order: when the dispatch of an
\* event begins, the dispatch of every event published before it (to all its
\* callbacks) has completed.
C11_FifoDelivery ==
    [][\A w \in Workers :
          DispatchBegins(w) =>
              \A j \in 1..(wev[w].data - 1) : j \in dispatched]_vars

\* the step in which is_due() returns
IsDueReturns(t) == op[t] = "is_due" /\ pc[t] # "done" /\ pc'[t] = "done"

\* C20: is_due() returns False whenever the job is Running or in Timeout at
\* the moment it returns, and otherwise returns True exactly when
\* get_next_run() <= now, whatever a concurrent run() does.
C20_IsDueUnderRun ==
    [][\A t \in Threads :
          IsDueReturns(t) =>
              IF state \in {"running", "timeout"}
              THEN result'[t] = "False"
              ELSE (result'[t] = "True") <=> (get_next_run <= now)]_vars

\* C12: when a callback raises during the dispatch of an event, every
\* callback registered for the event (own type, then "all") is still
\* invoked, the worker releases the lock and goes back to its loop, and the
\* events published by then are still dispatched (while the bus is started).
C12_RaiseIsIsolated ==
    /\ [][\A w \in Workers :
            (DispatchEnds(w) /\ wraised[w] > 0) =>
                /\ wcalls[w] =
                       ExactCallbacks(subscriptions, wev[w])
                       \o AllCallbacks(subscriptions, wev[w])
                /\ wpc'[w] = "loop" /\ bus_lock' = NoThread
                /\ wev[w].data \in dispatched']_vars
    /\ \A k \in 1..MaxEvents :
          ((\E w \in Workers : wraised[w] > 0) /\ npublished >= k)
              ~> (k \in dispatched \/ ~bus_running)

\* a dispatch is about to end whose first callback raised and that invoked a
\* callback of the event's own type and a callback subscribed to "all", with
\* a later event waiting in the queue
C12_Witness ==
    \E w \in Workers :
        /\ wpc[w] = "all" /\ wraised[w] = 1
        /\ ExactCallbacks(subscriptions, wev[w]) # <<>>
        /\ AllCallbacks(subscriptions, wev[w]) # <<>>
        /\ wcalls[w] = ExactCallbacks(subscriptions, wev[w])
                       \o AllCallbacks(subscriptions, wev[w])
        /\ queue # <<>>

\* ---------------------------------------------------------------- Botman
\* the candidates a list of wake times holds, and their number among the
\* findings of a scan
Candidates(nt) == {nt[i] : i \in DOMAIN nt}
CandidateFindings(sc) ==
    {i \in DOMAIN sc : sc[i].timeout = "True" \/ sc[i].due = "False"}
PassingFindings(sc) ==
    {i \in DOMAIN sc : sc[i] = Found(FALSE, "False", "True")}
Last(seq) == seq[Len(seq)]
\* the step in which the loop goes to sleep, and the one in which it submits
SleepStep(l) == lpc[l] = "submit" /\ lpc'[l] = "sleeping"
SubmitStep(l) == lpc[l] = "submit" /\ pending' = pending + 1

C15_SubmitsOnlyDue ==
    /\ [][\A l \in Loops :
            Len(bots_to_run'[l]) > Len(bots_to_run[l]) =>
                /\ sched_lock = l
                /\ Last(l_scan'[l]) = Found(FALSE, "False", "True")
                /\ Len(bots_to_run'[l]) = Cardinality(PassingFindings(l_scan'[l]))]_vars
    /\ [][pending' > pending =>
            \E l \in Loops :
                /\ SubmitStep(l)
                /\ sched_lock # l
                /\ Len(l_scan[l]) = Len(bots)
                /\ bots_to_run[l] # <<>> /\ bots_to_run'[l] = Tail(bots_to_run[l])
                /\ Len(bots_to_run[l]) <= Cardinality(PassingFindings(l_scan[l]))]_vars

\* the loop has submitted the bot it found due, with the lock released
C15_Witness ==
    \E l \in Loops :
        /\ lpc[l] = "submit" /\ bots_to_run[l] = <<>> /\ pending = 1
        /\ l_scan[l] = <<Found(FALSE, "False", "True")>>
        /\ sched_lock = NoThread

\* the step in which stop(), called on a running Botman, returns
StopReturns(c) == cpc[c] = "stop_wait" /\ cpc'[c] = "ready"

\* C18: stop() on a running Botman returns only after every run submitted to
\* the pool has finished (no work item is waiting or executing, and the
\* state is no longer Running because of it), and no run is cut short: a
\* pool thread leaves a run only when bot.run has returned.
C18_StopWaitsForRuns ==
    /\ [][\A c \in Callers :
            StopReturns(c) =>
                /\ pending = 0
                /\ \A t \in Threads : wtask[t] = "idle"
                /\ state # "running"]_vars
    /\ [][\A t \in Threads :
            (wtask[t] = "run" /\ wtask'[t] # "run") => pc[t] = "done"]_vars

\* the steps in which start() and stop() are called
Calls(c, m) ==
    /\ cpc[c] = "ready" /\ nops' = nops + 1 /\ cop'[c] = m
    /\ \A d \in Callers \ {c} : cop'[d] = cop[d] /\ cpc'[d] = cpc[d] /\ cres'[d] = cres[d]
StartCall(c) == Calls(c, "start")
StopCall(c) == Calls(c, "stop")
ActiveLoops == {l \in Loops : lpc[l] # "none"}

\* C19: start() on a running Botman changes nothing and submits no loop, so
\* at most one loop is active at any instant; stop() on a Botman that is not
\* running changes nothing and publishes no event.
C19_StartStopIdempotent ==
    /\ [](Cardinality(ActiveLoops) <= 1)
    /\ [][\A c \in Callers :
            (StartCall(c) /\ sched_running) =>
                /\ cpc'[c] = "ready"
                /\ UNCHANGED <<bots, sched_running, sched_lock, pool_shutdown,
                               pending, wtask, loopVars, queue>>]_vars
    /\ [][\A c \in Callers :
            (StopCall(c) /\ ~sched_running) =>
                /\ cpc'[c] = "ready"
                /\ UNCHANGED <<bots, sched_running, sched_lock, pool_shutdown,
                               pending, wtask, loopVars, queue>>]_vars

\* the step in which remove_bot, called for a registered bot, returns
RemoveReturns(c) == cpc[c] = "remove_unsub" /\ cpc'[c] = "ready"
\* remove_bot has returned for a registered bot and nobody has subscribed
\* since: the EventManager's last subscribe or unsubscribe is that removal's
Removed == api.op = "unsubscribe"
Registered == InList(bots, BotName)

\* C13: when remove_bot(bot) returns for a registered bot no callback is
\* left subscribed to the bot's name, and until someone subscribes again no
\* worker invokes a callback for an event of that name (a dispatch that
\* invokes one holds the EventManager's lock from its beginning, so it began
\* after the removal).
C13_RemovedReachesNone ==
    /\ [][\A c \in Callers :
            RemoveReturns(c) =>
                \A key \in EventTypes \cup {WildcardType} :
                    CallbacksFor(subscriptions', BotName, key) = <<>>]_vars
    /\ [][\A w \in Workers :
            (Removed /\ wev[w].bot_name = BotName) =>
                (wcalls'[w] = wcalls[w] \/ wcalls'[w] = <<>>)]_vars

\* after callbacks were subscribed and the bot removed, a worker has gone
\* through the exact-type list of an event of the bot's name: nothing invoked
C13_Witness ==
    \E w \in Workers :
        /\ Removed /\ napi >= 1 /\ ~Registered
        /\ wpc[w] = "all" /\ wev[w].bot_name = BotName /\ wcalls[w] = <<>>

\* the loop sleeps until an instant the clock of the model does not reach
BeyondHorizon(l) == lpc[l] = "sleeping" /\ l_wake[l] > MaxTime

\* C16: while the Botman is running, a registered bot that is idle and due
\* is eventually run (its state becomes Running), every function returning
\* and every thread being scheduled.
C16_DueIsExecuted ==
    (sched_running /\ Registered /\ state = "idle" /\ get_next_run <= now)
        ~> \/ state = "running"
           \/ ~sched_running
           \/ \E l \in Loops : BeyondHorizon(l)

\* C17: with the Botman running, a bot in timeout eventually becomes idle
\* again, and the loop goes on: it ends only when the Botman is stopped,
\* whatever the bot's function does.
C17_FailingJobCycles ==
    /\ (sched_running /\ Registered /\ state = "timeout" /\ timeout_until <= MaxTime)
           ~> \/ state # "timeout"
              \/ ~sched_running
              \/ \E l \in Loops : BeyondHorizon(l)
    /\ [][\A l \in Loops :
            (lpc[l] # "none" /\ lpc'[l] = "none") => ~sched_running]_vars

\* ------------------------------------------------------------ Bot.is_due
\* threads inside is_due(True) that have found the bot due and have not yet
\* stamped last_run: they evaluated the same trigger
FoundDue == {t \in Threads : op[t] = "is_due" /\ arg[t] /\ pc[t] = "due_mark"}

\* C21: the due check of is_due(True) and the stamping of last_run are one
\* critical section: no two threads are between the check and the stamping
\* at once, and when a thread returns True from is_due(True) no other thread
\* has found the bot due for the same trigger.
C21_IsDueClaimsOnce ==
    /\ [](Cardinality(FoundDue) <= 1)
    /\ [][\A t \in Threads :
            (IsDueReturns(t) /\ arg[t] /\ result'[t] = "True") =>
                FoundDue \ {t} = {}]_vars

\* the step in which a worker thread comes to exist
WorkerStarts(w) == wpc[w] = "dead" /\ wpc'[w] # "dead"
LiveWorkers == {w \in Workers : wpc[w] # "dead"}

\* C30: at most one worker thread consumes the queue at any instant; start()
\* on a started EventManager creates no worker and changes nothing, and
\* stop() on a stopped one changes nothing.
C30_SingleWorker ==
    /\ [](Cardinality(LiveWorkers) <= 1)
    /\ [][bus_running => \A w \in Workers : ~WorkerStarts(w)]_vars
    /\ [][(Start /\ bus_running) => UNCHANGED vars]_vars
    /\ [][(Stop /\ ~bus_running) => UNCHANGED vars]_vars

\* ------------------------------------------------ EventManager.publish
PublishStep == npublished' = npublished + 1
InCallback(w) == bus_lock = w /\ wpc[w] \in {"exact", "all"} /\ wcalls[w] # <<>>

\* C28: publish is never kept waiting: whatever the lock, the worker and
\* _running are, a publish call can take its step at once; the step appends
\* the event at the tail of the queue and touches neither the lock nor the
\* worker, and it invokes no callback.
C28_PublishNeverWaits ==
    /\ [](npublished < MaxEvents =>
            \A n \in PublishTopics, ty \in EventTypes : ENABLED Publish(n, ty))
    /\ [][PublishStep =>
            /\ Len(queue') = Len(queue) + 1
            /\ SubSeq(queue', 1, Len(queue)) = queue
            /\ Last(queue').data = npublished'
            /\ UNCHANGED <<bus_lock, bus_running, wpc, wev, widx, wcalls, wraised,
                           subscriptions, dispatched>>]_vars

\* an event was published on a stopped bus while a worker was inside a callback
C28_Witness ==
    \E w \in Workers :
        /\ InCallback(w)
        /\ ~bus_running
        /\ wev[w].data = 1
        /\ queue # <<>> /\ Last(queue).data = 2 /\ Len(wcalls[w]) = 1

\* ------------------------------------------------------ the Bot's lock
\* thread t takes the step
Moves(t) == pc'[t] # pc[t] \/ op'[t] # op[t]
Guarded == <<state, runs, errors, last_run, timeout_until>>
Sleeping == {t \in Threads : op[t] = "run" /\ pc[t] = "run_sleep"}

\* C26: a step that changes state, runs, errors, last_run or timeout_until is
\* taken by a thread that holds the Bot's lock: by the holder when the lock
\* is held, and never while another thread holds it.
C26_MutationsUnderLock ==
    [][Guarded' # Guarded =>
          \A u \in Threads : bot_lock = u => Moves(u)]_vars

\* C27: a run() in its backoff sleep does not hold the lock, and while it
\* sleeps another thread's is_in_timeout(), is_due() and set_last_run() take
\* the lock at once when it is free and, once they hold it, finish.
C27_SleepWithoutLock ==
    \A t \in Sleeping :
        /\ bot_lock # t
        /\ \A u \in Threads \ {t} :
             /\ (pc[u] = "ready" /\ bot_lock = NoThread) =>
                   /\ ENABLED Is_in_timeout(u)
                   /\ ENABLED Is_due_Begin(u, TRUE)
                   /\ ENABLED Set_last_run_Begin(u, now)
             /\ pc[u] = "slr_set" => ENABLED Set_last_run_Set(u)
             /\ (pc[u] = "due_mark" /\ bot_lock = NoThread) => ENABLED Is_due_Mark(u)

\* set_last_run() has completed while the run() that failed is still asleep
C27_Witness ==
    \E t \in Sleeping : \E u \in Threads \ {t} :
        /\ now < wake[t]
        /\ pc[u] = "done" /\ op[u] = "set_last_run"
        /\ last_run = now

\* ------------------------------------------------------ Bot.get_next_run
GetNextRunReturns(t) == op[t] = "get_next_run" /\ pc[t] # "done" /\ pc'[t] = "done"
\* the earliest first trigger strictly after base, over the expressions
EarliestTrigger(sch, base) ==
    Min({Min({x \in 1..(base + sch[i]) : x > base /\ x % sch[i] = 0}) : i \in DOMAIN sch})

\* C22: what get_next_run() returns is timeout_until when the state is
\* TIMEOUT, and otherwise the earliest first trigger of its expressions
\* strictly after last_run, or after the instant of construction (0) when
\* last_run is None.
C22_NextRunValue ==
    [][\A t \in Threads :
          GetNextRunReturns(t) =>
              rval'[t] = IF state = "timeout" THEN timeout_until
                         ELSE EarliestTrigger(schedule,
                                  IF last_run = NoneT THEN 0 ELSE last_run)]_vars

\* -------------------------------------- a next-trigger computation fails
\* the loop's thread calls get_next_run(), which goes on to the schedules
NextRunComputed(l) ==
    /\ lpc[l] = "next?" /\ pc[l] = "ready" /\ pc'[l] = "done"
    /\ ~InTimeoutBranch
\* the loop's is_due(False) compares what the schedules gave
DueComputed(l) ==
    /\ lpc[l] = "due?" /\ pc[l] = "due_next" /\ pc'[l] # "due_next"
    /\ ~InTimeoutBranch
\* the loop's thread goes on after get_next_run() has returned
NextRunTaken(l) == lpc[l] = "next?" /\ pc[l] = "done" /\ lpc'[l] # "next?"

\* C23: for a Bot whose schedules cannot be computed, get_next_run() returns
\* now + 1 hour and raises nothing, is_due() returns False, and the loop
\* appends that instant and goes on with the next bot of the list; its thread
\* ends only when the Botman is stopped.
C23_FailureIsFarFuture ==
    [][\A l \in Loops :
          CronFails(schedule) =>
              /\ NextRunComputed(l) =>
                    result'[l] = "instant" /\ rval'[l] = now + Hour
              /\ DueComputed(l) => pc'[l] = "done" /\ result'[l] = "False"
              /\ NextRunTaken(l) =>
                    /\ lpc'[l] = "scan"
                    /\ l_i'[l] = l_i[l] + 1
                    /\ next_times'[l] = Append(next_times[l], rval[l])
              /\ (lpc[l] # "none" /\ lpc'[l] = "none") => ~sched_running]_vars

\* the loop sleeps its longest sleep with the far-future instant as its only
\* candidate
C23_Witness ==
    \E l \in Loops :
        /\ CronFails(schedule)
        /\ lpc[l] = "sleeping"
        /\ Len(next_times[l]) = 1 /\ next_times[l][1] >= Hour
        /\ sleep_time[l] = SleepCeiling
        /\ l_scan[l] = <<Found(FALSE, "False", "False")>>

\* ---------------------------------------------------------- Bot.__init__
\* C24: Bot(...) raises exactly when one of the expressions given does not
\* parse, and every expression of a Bot that the caller holds, or that is in
\* the Botman's list, parses.
C24_NoBadSchedule ==
    /\ [][\A a \in ScheduleArgs :
            Bot_init(a) =>
               (bot_ref' = "ValueError" <=>
                   \E i \in DOMAIN a.exprs : ~Parses(a.exprs[i]))]_vars
    /\ [](bot_ref = "bot" => \A i \in DOMAIN schedule : Parses(schedule[i]))
    /\ [](InList(bots, BotName) => \A i \in DOMAIN schedule : Parses(schedule[i]))

\* ------------------------------------------------- Botman.get_bot_metrics
\* what a caller reads in what it was returned
Snapshot(c) == [i \in DOMAIN snap[c].items |-> Fields(snap[c].items[i])]

\* C25: assigning to a returned object leaves the Bot's metrics as they
\* are; what a caller reads in a returned object changes only by its own
\* assignments; get_bot_metrics_by_name returns None exactly when no bot
\* of the list has the name.
C25_Snapshots ==
    /\ [][(\E c \in Callers : Modify_snapshot(c)) => metrics' = metrics]_vars
    /\ [][\A c \in Callers :
            (snap[c].kind \in {"list", "object"} /\ snap'[c] = snap[c]) =>
                Snapshot(c)' = Snapshot(c)]_vars
    /\ [][\A c \in Callers, name \in Names :
            Get_bot_metrics_by_name(c, name) =>
                (snap'[c].kind = "None" <=> ~InList(bots, name))]_vars
    /\ [][\A c \in Callers :
            Get_bot_metrics(c) =>
                /\ Len(snap'[c].items) = Len(bots)
                /\ \A i \in DOMAIN bots : snap'[c].items[i].val = metrics]_vars

\* a caller has modified the object it was returned, and the Bot has failed
\* since: the object shows neither the failure nor the Bot the modification
C25_Witness ==
    \E c \in Callers :
        /\ snap[c].kind = "object"
        /\ Snapshot(c)[1].runs = 1 /\ Snapshot(c)[1].errors = 0
        /\ Snapshot(c)[1].state = "idle"
        /\ runs = 1 /\ errors = 1 /\ state = "timeout"

\* --------------------------------------- EventManager.wait_until_empty
Joining(t) == op[t] = "wait_until_empty" /\ pc[t] = "joining"
TimedOut(t) == Joining(t) /\ arg[t] /\ now >= wake[t]

\* C29: a wait_until_empty whose timeout has elapsed can return, whatever
\* the queue holds, and every wait_until_empty returns in the end.
C29_WaitReturns ==
    /\ [](TimedOut("t1") => ENABLED Wait_until_empty_Return("t1"))
    /\ (Joining("t1") ~> ~Joining("t1"))

\* ------------------------------------------------- the Bot's invariants
\* BotState (btm_types.py:5-9) without ERROR
BotStates == {"idle", "running", "timeout"}

C32_SchedulesValid ==
    bot_ref = "bot" => (Len(schedule) >= 1 /\ Validates(schedule))

\* ---------------------------------------------------- Bot.run, its return
\* the step in which a run() that had set the state to RUNNING returns
AcceptedRunReturns(t) ==
    op[t] = "run" /\ pc[t] \notin {"ready", "done"} /\ pc'[t] = "done"

\* C33: a run() that set the state to RUNNING has set it to IDLE or TIMEOUT
\* when it returns, for every value of retries, 0 included.
C33_RunLeavesRunning ==
    [][\A t \in Threads : AcceptedRunReturns(t) => state' \in {"idle", "timeout"}]_vars

\* ------------------------------------------------ Botman._loop, submitting
\* work items the pool has been given and has not finished: waiting in its
\* queue, or being executed by one of its threads
Unfinished_runs == pending + Cardinality({t \in Threads : wtask[t] = "run"})

\* C34: the loop submits bot.run only when no earlier submission of it is
\* waiting in the pool or being executed.
C34_NoSecondSubmission ==
    [][\A l \in Loops : SubmitStep(l) => Unfinished_runs = 0]_vars

\* -------------------------------------- callbacks that call unsubscribe
\* C35: a callback that calls unsubscribe() while it is being dispatched
\* returns and the worker goes on: a worker that holds the EventManager's
\* lock can always take its next step, and every event published to a
\* running EventManager is dispatched.
C35_NoSelfDeadlock ==
    \A w \in Workers : bus_lock = w => ENABLED DispatchNext(w)

\* --------------------------------------- who waits for the Bot's function
\* C36: get_bot_metrics(), get_bot_metrics_by_name() and add_bot() never
\* wait for a Bot's function to finish: while a function is being executed,
\* a loop that holds the Botman's lock can take its next step (and so
\* comes to release the lock) without the function returning.
C36_LoopNeverWaitsForFunction ==
    \A l \in Loops : (sched_lock = l /\ InFunction # {}) => ENABLED LoopNext(l)

====
